---- MODULE Spec2Model ----
(***************************************************************************)
(* A model of the driver of src/src/sox.c: main()'s processing loop,       *)
(* process() (the combiner and the read loop), flow_effect_out(),          *)
(* flow_effect(), drain_effect_out() and drain_effect().                   *)
(*                                                                         *)
(* Codecs and effects are external collaborators: a read, a write, a flow  *)
(* and a drain are modelled by every outcome their contract allows.        *)
(* A stage buffer is the sequence of the sample values in obuf[0 .. olen);  *)
(* what an effect computes is outside the model, its samples are FX.       *)
(***************************************************************************)
EXTENDS Integers, Sequences, FiniteSets, TLC

(* ------------------------------ bounds -------------------------------- *)
\* the value of sox_bufsiz, the capacity of every stage buffer, in the runs
\* of the whole driver
B == 2
\* the largest input_count the model runs
MaxInputs == 2
\* the most wide samples one input delivers
MaxLen == 2
\* the largest value of a sox_size_t; its arithmetic wraps at SizeMax + 1
SizeMax == 3
\* the most effects the command line names
MaxUser == 2
\* the most options the command line carries beyond its first input file
MaxOpts == 2
\* the width of a sample in bits (a sox_ssample_t has 32)
SampleBits == 8
\* the largest input_count of the runs that stop after the combiner
MaxMix == 3
\* the largest start offset of a trim, in samples
MaxTrim == 2
\* the most clips an effect instance counts
MaxClips == 2

(* ------------------------- program constants -------------------------- *)
MAX_INPUT_FILES == 32
MAX_FILES == MAX_INPUT_FILES + 2
MAX_EFF == 16
MAX_USER_EFF == 14
SOX_SUCCESS == 0
SOX_EOF == -1
\* the start status of an effect that does nothing in this configuration
SOX_EFF_NULL == 32

Channels == {1, 2}
Rates == {1, 2}
Methods == {"sequence", "concatenate", "mix", "merge"}
\* f->volume as a fraction <<numerator, denominator>>; HUGE_VAL when no -v
\* was given
HUGE_VAL == <<1, 0>>
Volumes == {<<1, 1>>, <<2, 1>>}
\* the capability flags of the effects the model runs (h->flags)
\* the effects add_default_effect looks up by name
DefaultMixer == [name |-> "mixer", flags |-> {"CHAN", "MCHAN"}]
DefaultResample == [name |-> "resample", flags |-> {"RATE"}]
EffectKinds ==
  { [name |-> "vol", flags |-> {"MCHAN"}],
    [name |-> "echo", flags |-> {}] }
\* an effect that never does anything (SOX_EFF_NULL among its flags)
NullKind == [name |-> "noop", flags |-> {"NULL"}]
\* an empty entry of efftab or efftabR (its name is NULL)
NoEffect == [name |-> "", flags |-> {}, id |-> 0]
\* the chain can hold the sentinel, the user effects and two default effects
MaxEff == MaxUser + 3
SOX_SAMPLE_MAX == 2 ^ (SampleBits - 1) - 1
SOX_SAMPLE_MIN == -(2 ^ (SampleBits - 1))

VARIABLES
  \* the command line
  combine_method, input_count, fchan, frate, vopt, ofile_signal, show_progress,
  user_efftab, sox_bufsiz, fbase, seekable, flength,
  \* the output is a regular file; its codec does without stdio
  oregular, nostdio,
  \* the name the program was called by, the files counted so far, the file
  \* names and the playlist entries still to be parsed
  progname, file_count, nfiles, playlist,
  \* the input files
  current_input, pos, fzero, ferr, volume_clips, mixing_clips,
  read_wide_samples, volume,
  \* the output file
  combiner, ofile_channels, ofile_rate, oerr,
  \* the chain
  neffects, efftab, efftabR, olen, odone, obuf, input_eff, input_eff_eof,
  \* control
  pc, caller, e, total, havedata, flowstatus,
  user_abort, user_skip, handler, success, exit_status,
  \* history
  ev, readlog, written, delivered, wfail, rfail, drained, eofmax,
  \* the output handle is open; the table as built, the calls of the start
  \* phase, the effects stopped and the effects killed, of the current run
  oopen, built, startlog, stoplog, killlog,
  \* process() has warned that the inputs differ in channels
  warned,
  \* the start offset each stage's trim holds, the calls of optimize_trim
  trim_start, seeklog,
  \* the length sox_open_write was last given
  olength,
  \* the clips stop_effects counted for each stage
  clip_report,
  \* the clip counters of the stages and of their twins
  eclips, eclipsR,
  \* the inputs whose handle is open, the calls of sox_close on each input,
  \* the output handles opened and closed, the output file is unlinked
  iopen, iclosed, oopened, oclosed, unlinked

optvars == <<combine_method, input_count, fchan, frate, vopt, ofile_signal,
             show_progress, user_efftab, sox_bufsiz, fbase, seekable,
             flength, oregular, nostdio>>
argvars == <<file_count, nfiles, playlist>>
cfgvars == <<optvars, progname, argvars>>
filevars == <<current_input, pos, fzero, ferr, volume_clips, mixing_clips,
              read_wide_samples, volume>>
outvars == <<combiner, ofile_channels, ofile_rate, oerr>>
bufvars == <<olen, odone, obuf>>
chainvars == <<neffects, efftab, efftabR, input_eff, input_eff_eof>>
sigvars == <<user_abort, user_skip, handler>>
exitvars == <<success, exit_status>>
loopvars == <<caller, e, total, havedata, flowstatus>>
histvars == <<readlog, written, delivered, wfail, rfail, drained, eofmax>>
closevars == <<iopen, iclosed, oopened, oclosed, unlinked>>
setupvars == <<oopen, built, startlog, stoplog, killlog, warned, trim_start,
               seeklog, olength, clip_report, closevars>>
clipvars == <<eclips, eclipsR>>

vars == <<cfgvars, filevars, outvars, bufvars, chainvars, sigvars, exitvars,
          loopvars, histvars, setupvars, clipvars, pc, ev>>

(* ------------------------------ helpers ------------------------------- *)
Min(a, b) == IF a < b THEN a ELSE b
Max(a, b) == IF a > b THEN a ELSE b

Inputs == 1 .. input_count
Stages == 0 .. (MaxEff - 1)

RECURSIVE SumCh(_, _)
SumCh(f, n) == IF n = 0 THEN 0 ELSE f[n] + SumCh(f, n - 1)

RECURSIVE MaxCh(_, _)
MaxCh(f, n) == IF n = 0 THEN 0 ELSE Max(f[n], MaxCh(f, n - 1))

\* the call a step issues: the operation, the inputs or stages it is on, the
\* samples taken and given, the status, and for the flow of a split stage
\* what each twin was offered and reported
NoEv == [op |-> "none", a |-> {}, i |-> 0, o |-> 0, st |-> 0, sp |-> <<>>]
Ev(op, a, i, o, st) ==
  [op |-> op, a |-> a, i |-> i, o |-> o, st |-> st, sp |-> <<>>]

\* the value the codec of input i holds at wide sample p, channel c: the
\* file's first value fbase[i] + 1, rising by one from sample to sample
FileSample(i, p, c) == fbase[i] + 2 * (p - 1) + c

\* the samples of wide samples p+1 .. p+k of input i, interleaved
FileBlock(i, p, k) ==
  [j \in 1 .. (k * fchan[i]) |->
     FileSample(i, p + 1 + ((j - 1) \div fchan[i]), 1 + ((j - 1) % fchan[i]))]

(* ------------------------ balancing and combining --------------------- *)
\* SOX_ROUND_CLIP_COUNT applied to the fraction num/den: <<sample, clips>>
RoundClip(num, den) ==
  IF num < 0
    THEN IF 2 * num <= (2 * SOX_SAMPLE_MIN - 1) * den
           THEN <<SOX_SAMPLE_MIN, 1>>
           ELSE <<0 - (((2 * (0 - num)) + den) \div (2 * den)), 0>>
    ELSE IF 2 * num >= (2 * SOX_SAMPLE_MAX + 1) * den
           THEN <<SOX_SAMPLE_MAX, 1>>
           ELSE <<((2 * num) + den) \div (2 * den), 0>>

RECURSIVE SumSeq(_)
SumSeq(s) == IF s = <<>> THEN 0 ELSE Head(s) + SumSeq(Tail(s))

\* balance_input: the balanced block
BalanceBuf(buf, vol) ==
  IF vol = <<1, 1>> THEN buf
  ELSE [j \in 1 .. Len(buf) |-> RoundClip(vol[1] * buf[j], vol[2])[1]]

\* balance_input: the saturations it counts
BalanceClips(buf, vol) ==
  IF vol = <<1, 1>> THEN 0
  ELSE SumSeq([j \in 1 .. Len(buf) |-> RoundClip(vol[1] * buf[j], vol[2])[2]])

\* the mix loop over the inputs 1 .. i for wide sample ws (from 0), channel s
\* (from 0): <<sample, clips>>
RECURSIVE MixSample(_, _, _, _, _)
MixSample(ibuf, ilen, ws, s, i) ==
  IF i = 0 THEN <<0, 0>>
  ELSE LET prev == MixSample(ibuf, ilen, ws, s, i - 1)
       IN IF ws < ilen[i] /\ s < fchan[i]
            THEN LET r == RoundClip(prev[1] + ibuf[i][ws * fchan[i] + s + 1], 1)
                 IN <<r[1], prev[2] + r[2]>>
            ELSE prev

MixBuf(ibuf, ilen, n, ch) ==
  [j \in 1 .. (n * ch) |->
     MixSample(ibuf, ilen, (j - 1) \div ch, (j - 1) % ch, input_count)[1]]

MixClips(ibuf, ilen, n, ch) ==
  SumSeq([j \in 1 .. (n * ch) |->
     MixSample(ibuf, ilen, (j - 1) \div ch, (j - 1) % ch, input_count)[2]])

\* a merge loop that lays the inputs out last to first
RECURSIVE MergeWideM(_, _, _, _)
MergeWideM(ibuf, ilen, ws, i) ==
  IF i = 0 THEN <<>>
  ELSE [s \in 1 .. fchan[i] |->
          IF ws < ilen[i] THEN ibuf[i][ws * fchan[i] + s] ELSE 0]
       \o MergeWideM(ibuf, ilen, ws, i - 1)

\* the merge loop: the samples of one wide sample ws of the inputs 1 .. i
RECURSIVE MergeWide(_, _, _, _)
MergeWide(ibuf, ilen, ws, i) ==
  IF i = 0 THEN <<>>
  ELSE MergeWide(ibuf, ilen, ws, i - 1) \o
       [s \in 1 .. fchan[i] |->
          IF ws < ilen[i] THEN ibuf[i][ws * fchan[i] + s] ELSE 0]

RECURSIVE MergeBuf(_, _, _)
MergeBuf(ibuf, ilen, n) ==
  IF n = 0 THEN <<>>
  ELSE MergeBuf(ibuf, ilen, n - 1) \o MergeWide(ibuf, ilen, n - 1, input_count)

\* a test that looks at the rates only
can_segueM(i) == frate[i] = frate[i - 1]

\* can_segue(i), i the index of the next input
can_segue(i) == fchan[i] = fchan[i - 1] /\ frate[i] = frate[i - 1]

\* k samples computed by an effect
FX(k) == [j \in 1 .. k |-> 0]
\* the buffer positions from .. from+k-1
Positions(from, k) == [j \in 1 .. k |-> from + j - 1]

(* -------------------------- the effects table ------------------------- *)
\* the effects of the list effs that carry the flag f
WithFlag(effs, f) == {k \in 1 .. Len(effs) : f \in effs[k].flags}

\* a builder that adds the default effects after the user's, always
BuildTableM(cch, crate, och, orate) ==
  user_efftab
    \o (IF crate # orate /\ WithFlag(user_efftab, "RATE") = {}
          THEN <<DefaultResample>> ELSE <<>>)
    \o (IF cch # och /\ WithFlag(user_efftab, "CHAN") = {}
          THEN <<DefaultMixer>> ELSE <<>>)

\* build_effects_table: the effects of stages 1 .. neffects-1, in order
BuildTable(cch, crate, och, orate) ==
  LET need_chan == cch # och /\ WithFlag(user_efftab, "CHAN") = {}
      need_rate == crate # orate /\ WithFlag(user_efftab, "RATE") = {}
      first_chan == need_chan /\ cch > och
      first_rate == need_rate /\ crate > orate
  IN (IF first_chan THEN <<DefaultMixer>> ELSE <<>>)
       \o (IF first_rate THEN <<DefaultResample>> ELSE <<>>)
       \o user_efftab
       \o (IF need_rate /\ ~first_rate THEN <<DefaultResample>> ELSE <<>>)
       \o (IF need_chan /\ ~first_chan THEN <<DefaultMixer>> ELSE <<>>)

\* sox_updateeffect: the channels of the stream entering the k-th effect
InChannels(effs, k, cch, och) ==
  IF \E j \in WithFlag(effs, "CHAN") : j < k THEN och ELSE cch

\* add_effect: the k-th effect gets a right-channel twin
HasTwin(effs, k, cch, och) ==
  InChannels(effs, k, cch, och) > 1 /\ "MCHAN" \notin effs[k].flags

\* the entry of efftab made for the k-th effect of the table
Entry(eff, k) == [name |-> eff.name, flags |-> eff.flags, id |-> k]

\* efftab after build_effects_table
TableOf(effs) ==
  [s \in Stages |-> IF s >= 1 /\ s <= Len(effs) THEN Entry(effs[s], s)
                    ELSE NoEffect]

\* efftabR after build_effects_table: add_effect copies the entry or clears it
TwinsOf(effs, cch, och) ==
  [s \in Stages |-> IF s >= 1 /\ s <= Len(effs) /\ HasTwin(effs, s, cch, och)
                      THEN Entry(effs[s], s)
                    ELSE NoEffect]

(* ------------------------------ start phase --------------------------- *)
\* what a start handler may return
StartRets == {SOX_SUCCESS, SOX_EFF_NULL, SOX_EOF}

\* what the start handlers of the effects of the table effs return in one
\* run: out[k] = <<status of the k-th effect, status of its twin>>. The first
\* start that fails ends the phase, so one call at most fails: the effect's
\* (L), or its twin's with SOX_EOF (R) or with SOX_EFF_NULL (N); the handlers
\* never called (of an effect that never does anything, of an effect after
\* the failing one, of a twin that does not exist) are given SOX_SUCCESS.
StartOutcomes(effs, cch, och) ==
  LET n == Len(effs)
      called == {k \in 1 .. n : "NULL" \notin effs[k].flags}
      fails == {<<0, "L">>} \cup (called \X {"L"})
                 \cup ({k \in called : HasTwin(effs, k, cch, och)} \X {"R", "N"})
  IN UNION {
       { [k \in 1 .. n |->
            <<IF f = <<k, "L">> THEN SOX_EOF
              ELSE IF k \in nulls THEN SOX_EFF_NULL ELSE SOX_SUCCESS,
              IF f = <<k, "R">> THEN SOX_EOF
              ELSE IF f = <<k, "N">> THEN SOX_EFF_NULL ELSE SOX_SUCCESS>>] :
           nulls \in SUBSET {k \in called : f[1] = 0 \/ k < f[1]} } :
       f \in fails }

\* a compaction that starts one entry too far up: the removed effect stays
\* and its successor goes
ShiftM(tab, i, n) ==
  [s \in Stages |-> IF s > i /\ s < n THEN tab[s + 1] ELSE tab[s]]

\* the compaction loop of start_all_effects: the entries i+1 .. n move down
\* by one, n being neffects after its decrement
Shift(tab, i, n) ==
  [s \in Stages |-> IF s >= i /\ s < n THEN tab[s + 1] ELSE tab[s]]

\* a compaction that leaves the twins where they are
ShiftRM(tabR, i, n) == tabR

\* the compaction loop on efftabR
ShiftR(tabR, i, n) == Shift(tabR, i, n)

\* the loop of start_all_effects from index i on, ret being the last start
\* status seen; out[id] = <<status of the effect, status of its twin>>.
\* The log keeps the start and kill calls in the order made, each as
\* <<call, id of the effect, L for the effect or R for its twin, status>>.
RECURSIVE StartLoop(_, _, _, _, _, _, _)
StartLoop(tab, tabR, n, i, ret, out, log) ==
  IF i >= n
    THEN [ok |-> TRUE, tab |-> tab, tabR |-> tabR, n |-> n, log |-> log]
    ELSE LET eff == tab[i]
             is_always_null == "NULL" \in eff.flags
             r == IF is_always_null THEN ret ELSE out[eff.id][1]
             log1 == IF is_always_null THEN log
                     ELSE Append(log, <<"start", eff.id, "L", r>>)
             log2 == Append(log1, <<"start", eff.id, "R", out[eff.id][2]>>)
         IN IF ~is_always_null /\ r # SOX_EFF_NULL /\ r # SOX_SUCCESS
              THEN [ok |-> FALSE, tab |-> tab, tabR |-> tabR, n |-> n,
                    log |-> log1]
            ELSE IF is_always_null \/ r = SOX_EFF_NULL
              THEN StartLoop(Shift(tab, i, n - 1), ShiftR(tabR, i, n - 1),
                             n - 1, i, r, out,
                             Append(log1, <<"kill", eff.id, "L", 0>>))
            ELSE IF tabR[i].name # ""
              THEN IF out[eff.id][2] # SOX_SUCCESS
                     THEN [ok |-> FALSE, tab |-> tab, tabR |-> tabR, n |-> n,
                           log |-> log2]
                     ELSE StartLoop(tab, tabR, n, i + 1, r, out, log2)
            ELSE StartLoop(tab, tabR, n, i + 1, r, out, log1)

\* start_all_effects on the table built from effs
StartAll(effs, cch, och, out) ==
  StartLoop(TableOf(effs), TwinsOf(effs, cch, och), 1 + Len(effs), 1,
            SOX_SUCCESS, out, <<>>)

(* -------------------------------- Init -------------------------------- *)
\* the size of the command line: its options beyond the first input file
\* and its inputs whose rate is not the least one; -r, -S, -v and such an
\* input count double
Opts ==
  (input_count - 1) + Len(user_efftab)
    + (IF combine_method # "concatenate" THEN 1 ELSE 0)
    + (IF ofile_signal.channels # 0 THEN 1 ELSE 0)
    + 2 * ((IF ofile_signal.rate # 0 THEN 1 ELSE 0)
             + (IF show_progress THEN 1 ELSE 0)
             + Cardinality({i \in 1 .. input_count : volume[i] # <<1, 1>>})
             + Cardinality({i \in 1 .. input_count : frate[i] # 1}))

\* the command line is parsed: sox with input_count inputs and one output
Parsed ==
  /\ progname = "sox"
  /\ file_count = input_count + 1
  /\ nfiles = 0
  /\ playlist = 0

\* the output is a regular file written through stdio
PlainOutput == oregular = TRUE /\ nostdio = FALSE

\* the fields of the program once the command line is parsed
InitState ==
  /\ current_input = 1
  /\ pos = [i \in 1 .. input_count |-> 0]
  /\ fzero = [i \in 1 .. input_count |-> FALSE]
  /\ ferr = [i \in 1 .. input_count |-> 0]
  /\ volume_clips = [i \in 1 .. input_count |-> 0]
  /\ mixing_clips = 0
  /\ read_wide_samples = 0
  /\ combiner = [channels |-> 0, rate |-> 0]
  /\ ofile_channels = 0
  /\ ofile_rate = 0
  /\ oerr = 0
  /\ neffects = 1
  /\ efftab = [s \in Stages |-> NoEffect]
  /\ efftabR = [s \in Stages |-> NoEffect]
  /\ olen = [s \in Stages |-> 0]
  /\ odone = [s \in Stages |-> 0]
  /\ obuf = [s \in Stages |-> <<>>]
  /\ input_eff = 0
  /\ input_eff_eof = FALSE
  /\ caller = "process"
  /\ e = 0
  /\ total = 0
  /\ havedata = 0
  /\ flowstatus = 0
  /\ user_abort = FALSE
  /\ user_skip = FALSE
  /\ handler = FALSE
  /\ success = 0
  /\ exit_status = -1
  /\ ev = NoEv
  /\ readlog = <<>>
  /\ written = <<>>
  /\ delivered = [s \in Stages |-> <<>>]
  /\ wfail = FALSE
  /\ rfail = FALSE
  /\ drained = {}
  /\ eofmax = 0
  /\ oopen = FALSE
  /\ built = <<>>
  /\ startlog = <<>>
  /\ stoplog = <<>>
  /\ killlog = <<>>
  /\ warned = FALSE
  /\ trim_start = [s \in Stages |-> 0]
  /\ seeklog = <<>>
  /\ olength = 0
  /\ clip_report = <<>>
  /\ iclosed = [i \in 1 .. input_count |-> 0]
  /\ oopened = 0
  /\ oclosed = 0
  /\ unlinked = FALSE
  /\ eclips = [s \in Stages |-> 0]
  /\ eclipsR = [s \in Stages |-> 0]

\* the state main() hands to its processing loop, the command line parsed
\* and the input files opened
InitRun ==
  /\ InitState
  /\ pc = "process"
  /\ iopen = [i \in 1 .. input_count |-> TRUE]

\* the command lines of the runs of the whole driver
Init ==
  /\ combine_method \in Methods
  /\ input_count \in 1 .. MaxInputs
  /\ (combine_method \in {"mix", "merge"}) => input_count >= 2
  /\ fchan \in [1 .. input_count -> Channels]
  /\ frate \in [1 .. input_count -> Rates]
  /\ volume \in [1 .. input_count -> Volumes]
  /\ vopt = volume
  /\ ofile_signal \in [channels : {0} \cup Channels, rate : {0} \cup Rates]
  /\ show_progress \in BOOLEAN
  /\ user_efftab \in UNION {[1 .. n -> EffectKinds \cup {NullKind}] :
                               n \in 0 .. MaxUser}
  /\ Opts <= MaxOpts
  /\ sox_bufsiz = B
  /\ fbase = [i \in 1 .. input_count |-> 30 * i]
  /\ seekable = FALSE
  /\ flength = [i \in 1 .. input_count |-> MaxLen * fchan[i]]
  /\ Parsed
  /\ PlainOutput
  /\ InitRun

(* -------------------- parse_options_and_filenames() ------------------- *)
\* exit(n): the process ends without success being signalled
Exit(n) ==
  /\ pc' = "exit"
  /\ exit_status' = n
  /\ UNCHANGED success

\* the variables the parsing of the file names leaves alone
restvars == <<optvars, progname, filevars, outvars, bufvars, chainvars, sigvars,
              loopvars, histvars, setupvars, clipvars>>

\* files[file_count++] = f after the test of the room, k times over
AddFiles(k) ==
  IF file_count + k > MAX_FILES
    THEN /\ Exit(1)
         /\ file_count' = MAX_FILES
    ELSE /\ file_count' = file_count + k
         /\ UNCHANGED <<pc, exitvars>>

\* one turn of the loop over the file names, the name that of a file
ParseFile ==
  /\ pc = "parse"
  /\ nfiles > 0
  /\ ev' = NoEv
  /\ IF file_count >= MAX_FILES
       THEN /\ Exit(1)
            /\ UNCHANGED argvars
       ELSE /\ file_count' = file_count + 1
            /\ nfiles' = nfiles - 1
            /\ UNCHANGED <<playlist, pc, exitvars>>
  /\ UNCHANGED restvars

\* one turn of the loop over the file names, the name that of a playlist:
\* parse_playlist adds its entries one by one
ParsePlaylist ==
  /\ pc = "parse"
  /\ playlist > 0
  /\ ev' = NoEv
  /\ IF file_count >= MAX_FILES
       THEN /\ Exit(1)
            /\ UNCHANGED argvars
       ELSE /\ AddFiles(playlist)
            /\ playlist' = 0
            /\ UNCHANGED nfiles
  /\ UNCHANGED restvars

\* after the loop: play adds the output device, rec the input device
ParseDevices ==
  /\ pc = "parse"
  /\ nfiles = 0 /\ playlist = 0
  /\ ev' = NoEv
  /\ IF progname \in {"play", "rec"}
       THEN IF file_count >= MAX_FILES
              THEN /\ Exit(1)
                   /\ UNCHANGED file_count
              ELSE /\ file_count' = file_count + 1
                   /\ pc' = "parsed"
                   /\ UNCHANGED exitvars
       ELSE /\ pc' = "parsed"
            /\ UNCHANGED <<file_count, exitvars>>
  /\ UNCHANGED <<nfiles, playlist>>
  /\ UNCHANGED restvars

(* ------------------- main(), the opening of the inputs ---------------- *)
\* uservolume: a -v was given for some input
uservolume == \E i \in Inputs : vopt[i] # HUGE_VAL

\* f->volume as the loop that opens the inputs leaves it
MixVolume(i) ==
  IF combine_method = "mix" /\ ~uservolume THEN <<1, input_count>>
  ELSE volume[i]

\* main(), from the count of the inputs to the end of the loop that opens
\* them, last input first; fail is the input whose sox_open_read fails
OpenInputs ==
  /\ pc = "main"
  /\ ev' = NoEv
  /\ IF input_count < (IF combine_method \in {"sequence", "concatenate"}
                         THEN 1 ELSE 2)
       THEN /\ Exit(1)
            /\ UNCHANGED <<volume, iopen>>
       ELSE \E fail \in 0 .. input_count :
              /\ volume' = [i \in Inputs |->
                              IF fail = 0 \/ i >= fail THEN MixVolume(i)
                              ELSE volume[i]]
              /\ iopen' = [i \in Inputs |-> fail = 0 \/ i > fail]
              /\ IF fail # 0
                   THEN Exit(2)
                   ELSE /\ pc' = "process"
                        /\ UNCHANGED exitvars
  /\ UNCHANGED <<oopen, built, startlog, stoplog, killlog, warned, trim_start,
                 seeklog, olength, clip_report, iclosed, oopened, oclosed,
                 unlinked, clipvars>>
  /\ UNCHANGED <<cfgvars, current_input, pos, fzero, ferr, volume_clips,
                 mixing_clips, read_wide_samples, outvars, bufvars, chainvars,
                 sigvars, loopvars, histvars>>

(* --------------------------- optimize_trim() -------------------------- *)
\* the start offsets, in samples, a trim may hold after its start
TrimStarts == 0 .. MaxTrim

\* the offset the start handlers leave in the trims of the table effs
TrimOffsets(effs) ==
  IF \E k \in 1 .. Len(effs) : effs[k].name = "trim" THEN TrimStarts ELSE {0}

\* the condition of optimize_trim on the table tab of n stages: one input
\* and trim the first effect
TrimFirst(tab, n) == input_count = 1 /\ n > 1 /\ tab[1].name = "trim"

\* the codec of the first input can seek and its file is seekable
CanSeek == seekable

\* what sox_seek may return when optimize_trim calls it
SeekOutcomes(tab, n) ==
  IF TrimFirst(tab, n) /\ CanSeek THEN {SOX_SUCCESS, SOX_EOF} ELSE {SOX_SUCCESS}

\* a count of read samples that forgets the channels
ReadWideAfterSeekM(offset) == offset

\* read_wide_samples after a seek to offset that succeeded
ReadWideAfterSeek(offset) == offset \div fchan[1]

\* optimize_trim after the start calls of log, the trims holding the
\* offsets ts and sox_seek returning sk: the seek made, and afterwards
\* read_wide_samples, the trims' offsets and the position of the input
OptimizeTrim(tab, n, log, ts, sk) ==
  IF TrimFirst(tab, n) /\ CanSeek
    THEN LET offset == ts[1]
             call == [offset |-> offset, st |-> sk,
                      starts |-> Len(SelectSeq(log, LAMBDA c : c[1] = "start"))]
         IN IF sk # SOX_EOF
              THEN [log |-> <<call>>,
                    rws |-> ReadWideAfterSeek(offset),
                    ts |-> [ts EXCEPT ![1] = 0],
                    pos |-> [pos EXCEPT ![1] = Min(MaxLen, offset \div fchan[1])]]
              ELSE [log |-> <<call>>, rws |-> 0, ts |-> ts, pos |-> pos]
    ELSE [log |-> <<>>, rws |-> 0, ts |-> ts, pos |-> pos]

(* ------------------------------ process() ----------------------------- *)
\* combiner.channels and combiner.rate as process() sets them
CombinerChannels ==
  IF combine_method = "sequence" THEN fchan[current_input]
  ELSE IF combine_method = "merge" THEN SumCh(fchan, input_count)
  ELSE MaxCh(fchan, input_count)

CombinerRate == frate[IF combine_method = "sequence" THEN current_input ELSE 1]

\* ofile->signal.channels and .rate: the ones asked for, else the combiner's
OutChannels ==
  IF ofile_signal.channels = 0 THEN CombinerChannels ELSE ofile_signal.channels

OutRate == IF ofile_signal.rate = 0 THEN CombinerRate ELSE ofile_signal.rate

\* the table build_effects_table makes for this run
BuiltTable == BuildTable(CombinerChannels, CombinerRate, OutChannels, OutRate)

\* min_channels, max_channels and min_rate != max_rate over the inputs
MinChannels ==
  CHOOSE c \in Channels : (\E i \in Inputs : fchan[i] = c)
                             /\ \A i \in Inputs : fchan[i] >= c

MaxChannels == MaxCh(fchan, input_count)

RateError == \E i, j \in Inputs : frate[i] # frate[j]

\* a format check made for concatenation only
FormatErrorM ==
  combine_method = "concatenate" /\ (MinChannels # MaxChannels \/ RateError)

\* known_length of process()
KnownLength ==
  /\ combine_method # "sequence"
  /\ \A i \in Inputs : flength[i] # 0
  /\ WithFlag(user_efftab, "LENGTH") = {}

\* the length of input i in wide samples
WideLength(i) == flength[i] \div fchan[i]

\* a prediction that adds the lengths up whatever the method
OutputLengthM ==
  IF ~KnownLength THEN 0
  ELSE SumCh([i \in Inputs |-> WideLength(i)], input_count)

\* olen of process(), the length handed to sox_open_write
OutputLength ==
  IF ~KnownLength THEN 0
  ELSE IF combine_method = "concatenate"
    THEN SumCh([i \in Inputs |-> WideLength(i)], input_count)
  ELSE MaxCh([i \in Inputs |-> WideLength(i)], input_count)

\* progress_to_file(files[i]) if called: an input without a volume gets 1
DefaultVolume(i, called) ==
  IF called /\ volume[i] = HUGE_VAL THEN <<1, 1>> ELSE volume[i]

\* the inputs cannot be combined: process() calls exit(1)
FormatError ==
  /\ combine_method # "sequence"
  /\ \/ MinChannels # MaxChannels /\ combine_method = "concatenate"
     \/ RateError

\* process(), from its entry to the installation of the signal handlers:
\* the format checks, sox_open_write, build_effects_table,
\* start_all_effects, the allocation of the buffers
ProcessStart ==
  /\ pc = "process"
  /\ \E opened \in BOOLEAN :
     \E out \in StartOutcomes(BuiltTable, CombinerChannels, OutChannels) :
     \E off \in TrimOffsets(BuiltTable) :
     \E st \in {StartAll(BuiltTable, CombinerChannels, OutChannels, out)} :
     LET seq == combine_method = "sequence"
         cch == CombinerChannels
         crate == CombinerRate
         och == OutChannels
         orate == OutRate
         effs == BuiltTable
         started == [s \in Stages |->
                       IF off # 0 /\ s < st.n /\ st.tab[s].name = "trim"
                         THEN off ELSE 0]
         notrim == /\ trim_start' = [s \in Stages |-> 0]
                   /\ seeklog' = <<>>
         fresh == /\ readlog' = <<>>
                  /\ written' = <<>>
                  /\ delivered' = [s \in Stages |-> <<>>]
                  /\ wfail' = FALSE
                  /\ rfail' = FALSE
                  /\ drained' = {}
                  /\ eofmax' = 0
                  /\ stoplog' = <<>>
                  /\ clip_report' = <<>>
                  /\ ev' = NoEv
         signals == /\ combiner' = [channels |-> cch, rate |-> crate]
                    /\ ofile_channels' = och
                    /\ ofile_rate' = orate
                    /\ oerr' = 0
                    /\ olength' = OutputLength
     IN /\ fresh
        /\ UNCHANGED <<iopen, iclosed, oclosed, unlinked>>
        /\ warned' = (MinChannels # MaxChannels /\ combine_method = "mix")
        /\ IF FormatError
             THEN /\ Exit(1)
                  /\ built' = <<>> /\ startlog' = <<>> /\ killlog' = <<>>
                  /\ notrim
                  /\ UNCHANGED <<olength, clipvars, oopened>>
                  /\ UNCHANGED <<cfgvars, filevars, outvars, bufvars,
                                 chainvars, sigvars, loopvars, oopen>>
           ELSE IF ~opened
             THEN /\ Exit(2)
                  /\ signals
                  /\ UNCHANGED <<clipvars, oopened>>
                  /\ built' = <<>> /\ startlog' = <<>> /\ killlog' = <<>>
                  /\ notrim
                  /\ UNCHANGED <<cfgvars, filevars, bufvars, chainvars,
                                 sigvars, loopvars, oopen>>
           ELSE IF Cardinality(WithFlag(user_efftab, "CHAN")) > 1
             THEN /\ Exit(2)
                  /\ signals
                  /\ oopen' = TRUE
                  /\ oopened' = oopened + 1
                  /\ UNCHANGED clipvars
                  /\ built' = <<>> /\ startlog' = <<>> /\ killlog' = <<>>
                  /\ notrim
                  /\ UNCHANGED <<cfgvars, filevars, bufvars, chainvars,
                                 sigvars, loopvars>>
           ELSE /\ signals
                /\ oopen' = TRUE
                /\ oopened' = oopened + 1
                /\ built' = effs
                /\ startlog' = st.log
                /\ killlog' = SelectSeq(st.log, LAMBDA c : c[1] = "kill")
                /\ neffects' = st.n
                /\ efftab' = st.tab
                /\ efftabR' = st.tabR
                /\ eclips' = [s \in Stages |-> 0]
                /\ eclipsR' = [s \in Stages |-> 0]
                /\ IF ~st.ok
                     THEN /\ Exit(2)
                          /\ notrim
                          /\ UNCHANGED <<cfgvars, filevars, bufvars, input_eff,
                                         input_eff_eof, sigvars, loopvars>>
                     ELSE \E sk \in SeekOutcomes(st.tab, st.n) :
                          LET ot == OptimizeTrim(st.tab, st.n, st.log,
                                                 started, sk)
                          IN
                          \* progress_to_file, optimize_trim
                          /\ read_wide_samples' = ot.rws
                          /\ trim_start' = ot.ts
                          /\ seeklog' = ot.log
                          /\ pos' = ot.pos
                          /\ volume' = [i \in Inputs |->
                               IF seq \/ combine_method = "concatenate"
                                 THEN DefaultVolume(i, i = current_input)
                                 ELSE DefaultVolume(i, TRUE)]
                          /\ ferr' = [i \in Inputs |->
                               IF seq \/ combine_method = "concatenate"
                                 THEN (IF i = current_input THEN 0 ELSE ferr[i])
                                 ELSE 0]
                          /\ input_eff' = 0
                          /\ input_eff_eof' = FALSE
                          /\ olen' = [s \in Stages |->
                                        IF s >= 1 THEN 0 ELSE olen[s]]
                          /\ odone' = [s \in Stages |->
                                         IF s >= 1 THEN 0 ELSE odone[s]]
                          /\ obuf' = [s \in Stages |->
                                        IF s >= 1 THEN <<>> ELSE obuf[s]]
                          /\ handler' = TRUE
                          /\ flowstatus' = 0
                          /\ pc' = "read"
                          /\ UNCHANGED <<cfgvars, current_input, fzero,
                                         volume_clips, mixing_clips,
                                         user_abort, user_skip, exitvars,
                                         caller, e, total, havedata>>

\* sox_read on input i for at most len wide samples: the outcomes
\* <<wide samples returned, sox_errno afterwards>> the codec may give.
\* An input that has returned zero samples keeps returning zero.
ReadOutcomes(i, len) ==
  IF fzero[i] THEN {<<0, ferr[i]>>}
  ELSE {<<k, ferr[i]>> : k \in 1 .. Min(len, MaxLen - pos[i])}
       \cup {<<0, ferr[i]>>, <<0, 1>>}

\* sox_read_wide's request, in wide samples
ReadLen == sox_bufsiz \div combiner.channels

\* entry of flow_effect_out
CallFlowOut(from) ==
  /\ pc' = "feo_for"
  /\ e' = neffects - 1
  /\ caller' = from

\* a read loop that never leaves the first input
ReadInputM == Min(current_input, 1)

\* the input the read loop reads in sequence and concatenate mode
ReadInput == current_input

\* a refill that reads whatever the skip flag says
SkippingM == FALSE

\* the refill leaves the current input unread
Skipping == user_skip

\* process(), top of the read loop in sequence and concatenate mode
ReadStep ==
  /\ pc = "read"
  /\ combine_method \in {"sequence", "concatenate"}
  /\ LET i == ReadInput
     IN IF Skipping
          THEN /\ olen' = [olen EXCEPT ![0] = 0]
               /\ obuf' = [obuf EXCEPT ![0] = <<>>]
               /\ ev' = NoEv
               /\ UNCHANGED <<pos, fzero, ferr, readlog, rfail>>
          ELSE \E r \in ReadOutcomes(i, ReadLen) :
                 LET blk == FileBlock(i, pos[i], r[1])
                 IN /\ olen' = [olen EXCEPT ![0] = r[1]]
                    /\ obuf' = [obuf EXCEPT ![0] = blk]
                    /\ pos' = [pos EXCEPT ![i] = @ + r[1]]
                    /\ fzero' = [fzero EXCEPT ![i] = (r[1] = 0)]
                    /\ ferr' = [ferr EXCEPT ![i] = r[2]]
                    /\ readlog' = readlog \o blk
                    /\ rfail' = (rfail \/ (r[1] = 0 /\ r[2] # 0))
                    /\ ev' = Ev("read", {i}, 0, r[1], r[2])
  /\ pc' = "after_read"
  /\ delivered' = [delivered EXCEPT ![0] = <<>>]
  /\ UNCHANGED <<setupvars, clipvars>>
  /\ UNCHANGED <<cfgvars, current_input, volume_clips, mixing_clips,
                 read_wide_samples, volume, outvars,
                 odone, chainvars, sigvars, exitvars, loopvars, written,
                 wfail, drained, eofmax>>

\* process(), the rest of the loop body in sequence and concatenate mode
AfterRead ==
  /\ pc = "after_read"
  /\ ev' = NoEv
  /\ IF olen[0] = 0
       THEN /\ user_skip' = FALSE
            /\ current_input' = current_input + 1
            /\ IF current_input + 1 <= input_count
                 THEN IF combine_method = "sequence"
                         /\ ~can_segue(current_input + 1)
                        THEN /\ pc' = "after_loop"
                             /\ UNCHANGED <<ferr, read_wide_samples, volume>>
                        ELSE /\ ferr' = [ferr EXCEPT ![current_input + 1] = 0]
                             /\ read_wide_samples' = 0
                             /\ volume' = [i \in Inputs |->
                                  DefaultVolume(i, i = current_input + 1)]
                             /\ pc' = IF flowstatus = 0 THEN "read"
                                      ELSE "after_loop"
                 ELSE /\ pc' = "after_loop"
                      /\ UNCHANGED <<ferr, read_wide_samples, volume>>
            /\ UNCHANGED <<olen, odone, obuf, volume_clips, caller, e>>
       ELSE LET f == current_input
            IN /\ obuf' = [obuf EXCEPT ![0] = BalanceBuf(@, volume[f])]
               /\ volume_clips' = [volume_clips EXCEPT
                                     ![f] = @ + BalanceClips(obuf[0], volume[f])]
               /\ odone' = [odone EXCEPT ![0] = 0]
               /\ olen' = [olen EXCEPT ![0] = olen[0] * combiner.channels]
               /\ read_wide_samples' = read_wide_samples + olen[0]
               /\ CallFlowOut("process")
               /\ UNCHANGED <<user_skip, current_input, ferr, volume>>
  /\ UNCHANGED <<setupvars, clipvars>>
  /\ UNCHANGED <<cfgvars, pos, fzero, mixing_clips, outvars, chainvars,
                 user_abort, handler, exitvars, total, havedata, flowstatus,
                 histvars>>

RECURSIVE ReadBlocks(_, _)
ReadBlocks(rs, i) ==
  IF i = 0 THEN <<>>
  ELSE ReadBlocks(rs, i - 1) \o FileBlock(i, pos[i], rs[i][1])

\* process(), the loop body in mix and merge mode
ReadCombine ==
  /\ pc = "read"
  /\ combine_method \in {"mix", "merge"}
  /\ \E rs \in [Inputs -> (0 .. Min(sox_bufsiz, MaxLen)) \X {0, 1}] :
       /\ \A i \in Inputs : rs[i] \in ReadOutcomes(i, ReadLen)
       /\ LET ilen == [i \in Inputs |-> rs[i][1]]
              raw == [i \in Inputs |-> FileBlock(i, pos[i], ilen[i])]
              ibuf == [i \in Inputs |-> BalanceBuf(raw[i], volume[i])]
              n == MaxCh(ilen, input_count)
              ch == combiner.channels
              out == IF combine_method = "mix"
                       THEN MixBuf(ibuf, ilen, n, ch)
                       ELSE MergeBuf(ibuf, ilen, n)
          IN /\ pos' = [i \in Inputs |-> pos[i] + ilen[i]]
             /\ fzero' = [i \in Inputs |-> ilen[i] = 0]
             /\ ferr' = [i \in Inputs |-> rs[i][2]]
             /\ volume_clips' = [i \in Inputs |->
                                   volume_clips[i]
                                     + BalanceClips(raw[i], volume[i])]
             /\ mixing_clips' = mixing_clips
                                  + (IF combine_method = "mix"
                                       THEN MixClips(ibuf, ilen, n, ch) ELSE 0)
             /\ readlog' = readlog \o ReadBlocks(rs, input_count)
             /\ rfail' = (rfail \/ \E i \in Inputs : rs[i][1] = 0 /\ rs[i][2] # 0)
             /\ ev' = Ev("read", Inputs, 0, n, 0)
             /\ obuf' = [obuf EXCEPT ![0] = out]
             /\ delivered' = [delivered EXCEPT ![0] = <<>>]
             /\ odone' = [odone EXCEPT ![0] = IF n = 0 THEN @ ELSE 0]
             /\ olen' = [olen EXCEPT ![0] = n * ch]
             /\ read_wide_samples' = read_wide_samples + n
             /\ UNCHANGED volume
             /\ IF n = 0
                  THEN /\ pc' = "after_loop"
                       /\ UNCHANGED <<caller, e>>
                  ELSE CallFlowOut("process")
  /\ UNCHANGED <<setupvars, clipvars>>
  /\ UNCHANGED <<cfgvars, current_input, outvars, chainvars, sigvars, exitvars,
                 total, havedata, flowstatus, written, wfail, drained, eofmax>>

(* --------------------------- flow_effect_out() ------------------------ *)
\* the clips stop_effects and total_clips count for stage s
EffectClips(s) ==
  eclips[s] + (IF efftabR[s].name # "" THEN eclips[s] ELSE 0)

\* the clips the handlers of stage s may count in one call, <<left, right>>:
\* bass is an effect that saturates, the other effects of these runs do not
ClipOutcomes(s) ==
  IF efftab[s].name # "bass" THEN {<<0, 0>>}
  ELSE {<<cl, cr>> :
          cl \in 0 .. Min(1, MaxClips - eclips[s]),
          cr \in 0 .. (IF efftabR[s].name # ""
                         THEN Min(1, MaxClips - eclipsR[s]) ELSE 0)}

Last == neffects - 1

\* flow_effect_out, after the backwards loop: write if the last stage holds
\* output, else fall through to the reset of the last stage
LoopExit(ol, od) ==
  /\ pc' = IF ol[Last] > od[Last] THEN "feo_write" ELSE "feo_rescan"
  /\ total' = 0
  /\ e' = 0

\* flow_effect_out returns r to its caller
ReturnFlowOut(r) ==
  /\ e' = 0
  /\ total' = 0
  /\ IF caller = "process"
       THEN /\ flowstatus' = r
            /\ pc' = "flowed"
       ELSE /\ UNCHANGED flowstatus
            /\ pc' = "stop"

\* a split that gives both twins the same share
LeftShareM(idone) == idone \div 2

\* idonel and idoner of flow_effect: the samples offered to each twin
LeftShare(idone) == (idone + 1) \div 2
RightShare(idone) == idone \div 2

\* the deinterleave loop on the window that starts at buffer position from:
\* the positions whose samples fill ibufl, ibufr
ScratchL(from, idone) == [k \in 1 .. ((idone + 1) \div 2) |-> from + 2 * (k - 1)]
ScratchR(from, idone) == [k \in 1 .. ((idone + 1) \div 2) |-> from + 2 * (k - 1) + 1]

\* what the flow handlers of stage s may report when offered the idone
\* samples from position from on and room for odone:
\* <<consumed, produced, status, split>>.  A stage with a right
\* twin runs the handler twice, on ceil/floor halves of the input and on
\* floor(odone/2) room each; the status is the left one unless it is zero.
\* split holds, for such a stage, the positions and the room offered to
\* each twin, and the counts each reported.
FlowOutcomes(s, from, idone, room) ==
  IF efftabR[s].name = ""
       THEN {<<i, o, st, <<>>>> : i \in 0 .. idone, o \in 0 .. room,
                                  st \in {SOX_SUCCESS, SOX_EOF}}
       ELSE LET idonel == LeftShare(idone)
                idoner == RightShare(idone)
                half == room \div 2
            IN {<<x[1] + x[2], x[3] + x[4], IF x[5] # 0 THEN x[5] ELSE x[6],
                  [lpos |-> SubSeq(ScratchL(from, idone), 1, idonel),
                   rpos |-> SubSeq(ScratchR(from, idone), 1, idoner),
                   odonel |-> half, odoner |-> half,
                   idonel |-> x[1], idoner |-> x[2],
                   producedl |-> x[3], producedr |-> x[4]]>> :
                  x \in (0 .. idonel) \X (0 .. idoner) \X (0 .. half)
                          \X (0 .. half)
                          \X {SOX_SUCCESS, SOX_EOF}
                          \X {SOX_SUCCESS, SOX_EOF}}

\* the first sample of its predecessor's buffer that flow_effect(s) offers
FlowWindowStart(s) == odone[s - 1] + 1

\* idone of flow_effect(s), a sox_size_t difference
FlowOffered(s) == (olen[s - 1] - odone[s - 1]) % (SizeMax + 1)

\* done without the count: the test for a stalled effect never fires
DoneM(idone, produced) == 1

\* done of flow_effect: the samples taken and given by the handlers
Done(idone, produced) == idone + produced

\* an EOF of flow_effect that leaves the pull point where it is
PullPointM(ret, s) == input_eff

\* input_eff after flow_effect(s) returned ret
PullPoint(ret, s) == IF ret = SOX_EOF THEN s ELSE input_eff

\* flow_effect_out, the body of the backwards loop after flow_effect(e)
\* returned ret and left the buffers ol, od
AfterFlow(ret, ol, od) ==
  /\ input_eff' = PullPoint(ret, e)
  /\ input_eff_eof' = IF ret = SOX_EOF THEN FALSE ELSE input_eff_eof
  /\ IF od[e] < ol[e]
       THEN LoopExit(ol, od)
       ELSE /\ e' = e - 1
            /\ pc' = "feo_for"
            /\ total' = total

\* flow_effect_out: one iteration of the backwards loop, flow_effect(e)
\* included
FlowFor ==
  /\ pc = "feo_for"
  /\ \E killed \in BOOLEAN :
     IF ~(e # 0 /\ e >= input_eff)
       THEN /\ LoopExit(olen, odone)
            /\ ev' = NoEv
            /\ UNCHANGED <<bufvars, input_eff, input_eff_eof, delivered,
                           exitvars, eofmax, clipvars>>
       ELSE IF e = input_eff /\ input_eff_eof
         THEN /\ e' = e - 1
              /\ ev' = NoEv
              /\ UNCHANGED <<bufvars, input_eff, input_eff_eof, delivered,
                             exitvars, pc, total, eofmax, clipvars>>
       ELSE IF user_abort
         THEN /\ AfterFlow(SOX_EOF, olen, odone)
              /\ ev' = NoEv
              /\ UNCHANGED <<bufvars, delivered, exitvars, eofmax, clipvars>>
       ELSE IF odone[e - 1] = olen[e - 1]
         THEN /\ AfterFlow(SOX_SUCCESS, olen, odone)
              /\ ev' = NoEv
              /\ UNCHANGED <<bufvars, delivered, exitvars, eofmax, clipvars>>
       ELSE IF odone[e - 1] > olen[e - 1] /\ killed
         \* the handler is given a window that leaves the buffer; one
         \* outcome is that the process dies on the access
         THEN /\ pc' = "killed"
              /\ ev' = Ev("fault", {e}, 0, 0, SOX_SUCCESS)
              /\ UNCHANGED <<bufvars, input_eff, input_eff_eof, delivered,
                             exitvars, e, total, eofmax, clipvars>>
       ELSE \E r \in FlowOutcomes(e, FlowWindowStart(e), FlowOffered(e),
                                  sox_bufsiz - olen[e]) :
              LET from == FlowWindowStart(e)
                  od == [odone EXCEPT ![e - 1] = (@ + r[1]) % (SizeMax + 1)]
                  ol == [olen EXCEPT ![e] = @ + r[2]]
              IN /\ odone' = od
                 /\ olen' = ol
                 /\ obuf' = [obuf EXCEPT ![e] = @ \o FX(r[2])]
                 /\ delivered' = [delivered EXCEPT
                                    ![e - 1] = @ \o Positions(from, r[1])]
                 /\ ev' = [Ev("flow", {e}, r[1], r[2], r[3]) EXCEPT !.sp = r[4]]
                 /\ eofmax' = IF r[3] = SOX_EOF THEN e ELSE eofmax
                 /\ \E c \in ClipOutcomes(e) :
                      /\ eclips' = [eclips EXCEPT ![e] = @ + c[1]]
                      /\ eclipsR' = [eclipsR EXCEPT ![e] = @ + c[2]]
                 /\ IF r[3] # SOX_EOF /\ Done(r[1], r[2]) = 0
                      THEN /\ Exit(2)
                           /\ UNCHANGED <<input_eff, input_eff_eof, e, total>>
                      ELSE /\ AfterFlow(r[3], ol, od)
                           /\ UNCHANGED exitvars
  /\ UNCHANGED setupvars
  /\ UNCHANGED <<cfgvars, filevars, outvars, neffects, efftab, efftabR, sigvars,
                 caller, havedata, flowstatus, readlog, written, wfail, rfail,
                 drained>>

\* sox_write of n samples: the counts the codec may accept, zero on error
WriteOutcomes(n) == 0 .. n

\* a write loop that hands the buffer from its offset 0 every time
WriteStartM == 0 + 1

\* the first sample of the last stage's buffer the next sox_write is handed
WriteStart == total + 1

\* the samples a sox_write that accepts len samples takes
WriteBlock(len) == SubSeq(obuf[Last], WriteStart, WriteStart + len - 1)

\* flow_effect_out: one sox_write of the write loop.  The history written
\* keeps the input samples handed to the sink, that is what is written
\* when the sentinel is the last stage.
WriteStep ==
  /\ pc = "feo_write"
  /\ IF user_abort
       THEN /\ ReturnFlowOut(SOX_EOF)
            /\ ev' = NoEv
            /\ UNCHANGED <<written, wfail, oerr>>
       ELSE \E len \in WriteOutcomes(olen[Last] - total) :
              /\ ev' = Ev("write", {Last}, olen[Last] - total, len, 0)
              /\ IF len = 0
                   THEN /\ wfail' = TRUE
                        /\ oerr' \in {oerr, 1}
                        /\ ReturnFlowOut(SOX_EOF)
                        /\ UNCHANGED written
                   ELSE /\ written' = IF Last = 0
                                         THEN written \o WriteBlock(len)
                                         ELSE written
                        /\ total' = total + len
                        /\ pc' = IF total + len < olen[Last] THEN "feo_write"
                                 ELSE "feo_rescan"
                        /\ UNCHANGED <<wfail, oerr, e, flowstatus>>
  /\ UNCHANGED <<setupvars, clipvars>>
  /\ UNCHANGED <<cfgvars, filevars, combiner, ofile_channels, ofile_rate,
                 bufvars, chainvars, sigvars, exitvars, caller, havedata,
                 readlog, delivered, rfail, drained, eofmax>>

\* the buffers after the reset of the last stage and of every stage from
\* input_eff up whose output is consumed: 0 where reset, else the old value
ResetLens(f) ==
  [s \in Stages |->
     IF s = Last \/ (s >= input_eff /\ s <= Last /\ odone[s] = olen[s])
       THEN 0 ELSE f[s]]

\* a scan that also counts the stages below the pull point
HaveDataM(ol, od) ==
  \E s \in Stages : /\ s <= Last
                    /\ od[s] < ol[s]
                    /\ ol[s] - od[s] >= ofile_channels

\* havedata: some stage from input_eff up still holds a full frame
HaveData(ol, od) ==
  \E s \in Stages : /\ s >= input_eff /\ s <= Last
                    /\ od[s] < ol[s]
                    /\ ol[s] - od[s] >= ofile_channels

\* flow_effect_out: the reset of the last stage, the havedata scan and the
\* choice between another pass, the drain loop and the return
Rescan ==
  /\ pc = "feo_rescan"
  /\ LET ol == ResetLens(olen)
         od == ResetLens(odone)
         hd == HaveData(ol, od)
     IN /\ olen' = ol
        /\ odone' = od
        /\ obuf' = [s \in Stages |-> IF ol[s] = 0 THEN <<>> ELSE obuf[s]]
        /\ delivered' = [s \in Stages |-> IF ol[s] = 0 THEN <<>>
                                          ELSE delivered[s]]
        /\ IF ~hd /\ input_eff > 0
             THEN /\ input_eff' = IF input_eff_eof THEN input_eff + 1
                                  ELSE input_eff
                  /\ input_eff_eof' = FALSE
                  /\ havedata' = 0
                  /\ pc' = "feo_drain"
                  /\ UNCHANGED <<e, total, flowstatus>>
             ELSE /\ havedata' = IF hd THEN 1 ELSE 0
                  /\ UNCHANGED <<input_eff, input_eff_eof>>
                  /\ IF hd
                       THEN /\ pc' = "feo_for"
                            /\ e' = Last
                            /\ UNCHANGED <<total, flowstatus>>
                       ELSE ReturnFlowOut(IF input_eff > 0 THEN SOX_EOF
                                          ELSE SOX_SUCCESS)
  /\ ev' = NoEv
  /\ UNCHANGED <<setupvars, clipvars>>
  /\ UNCHANGED <<cfgvars, filevars, outvars, neffects, efftab, efftabR, sigvars,
                 exitvars, caller, readlog, written, wfail, rfail, drained,
                 eofmax>>

\* what the drain handlers of stage s may report: <<produced, status>>
DrainOutcomes(s) ==
  IF efftabR[s].name = ""
       THEN {<<o, st>> : o \in 0 .. sox_bufsiz, st \in {SOX_SUCCESS, SOX_EOF}}
       ELSE {<<x[1] + x[2],
               IF x[3] = SOX_EOF \/ x[4] = SOX_EOF THEN SOX_EOF ELSE SOX_SUCCESS>> :
               x \in (0 .. (sox_bufsiz \div 2)) \X (0 .. (sox_bufsiz \div 2))
                       \X {SOX_SUCCESS, SOX_EOF} \X {SOX_SUCCESS, SOX_EOF}}

\* a drain loop that takes the EOF of a drain that gave nothing
EofAfterDrainM(n, rc) == rc = SOX_EOF

\* input_eff_eof after a drain that gave n samples and returned rc
EofAfterDrain(n, rc) == IF n = 0 THEN FALSE ELSE rc = SOX_EOF

\* drain_effect(input_eff) and the bookkeeping both drain loops do after it
DrainCall(r) ==
  /\ olen' = [olen EXCEPT ![input_eff] = r[1]]
  /\ odone' = [odone EXCEPT ![input_eff] = 0]
  /\ obuf' = [obuf EXCEPT ![input_eff] = FX(r[1])]
  /\ delivered' = [delivered EXCEPT ![input_eff] = <<>>]
  /\ ev' = Ev("drain", {input_eff}, 0, r[1], r[2])
  /\ drained' = drained \cup {input_eff}
  /\ \E c \in ClipOutcomes(input_eff) :
       /\ eclips' = [eclips EXCEPT ![input_eff] = @ + c[1]]
       /\ eclipsR' = [eclipsR EXCEPT ![input_eff] = @ + c[2]]
  /\ input_eff' = IF r[1] = 0 THEN input_eff + 1 ELSE input_eff
  /\ input_eff_eof' = EofAfterDrain(r[1], r[2])

\* flow_effect_out: one iteration of the drain loop
FeoDrain ==
  /\ pc = "feo_drain"
  /\ IF input_eff < neffects
       THEN \E r \in DrainOutcomes(input_eff) :
              /\ DrainCall(r)
              /\ IF r[1] = 0
                   THEN UNCHANGED <<pc, e, havedata, total, flowstatus>>
                   ELSE /\ havedata' = 1
                        /\ pc' = "feo_for"
                        /\ e' = Last
                        /\ UNCHANGED <<total, flowstatus>>
       ELSE /\ ReturnFlowOut(SOX_EOF)
            /\ ev' = NoEv
            /\ UNCHANGED <<bufvars, input_eff, input_eff_eof, havedata,
                           delivered, drained, clipvars>>
  /\ UNCHANGED setupvars
  /\ UNCHANGED <<cfgvars, filevars, outvars, neffects, efftab, efftabR, sigvars,
                 exitvars, caller, readlog, written, wfail, rfail, eofmax>>

(* ------------------- process() after flow_effect_out ------------------ *)
\* process(), the end of the loop body
Flowed ==
  /\ pc = "flowed"
  /\ pc' = IF user_abort \/ oerr # 0 \/ flowstatus # 0 THEN "after_loop"
           ELSE "read"
  /\ ev' = NoEv
  /\ UNCHANGED <<setupvars, clipvars>>
  /\ UNCHANGED <<cfgvars, filevars, outvars, bufvars, chainvars, sigvars,
                 exitvars, loopvars, histvars>>

\* process() after the read loop, and the entry of drain_effect_out
AfterLoop ==
  /\ pc = "after_loop"
  /\ ev' = NoEv
  /\ IF oerr = 0
       THEN /\ input_eff' = IF input_eff = 0 THEN 1 ELSE input_eff
            /\ input_eff_eof' = IF input_eff = 0 THEN FALSE ELSE input_eff_eof
            /\ pc' = "deo_drain"
       ELSE /\ pc' = "stop"
            /\ UNCHANGED <<input_eff, input_eff_eof>>
  /\ UNCHANGED <<setupvars, clipvars>>
  /\ UNCHANGED <<cfgvars, filevars, outvars, bufvars, neffects, efftab, efftabR,
                 sigvars, exitvars, loopvars, histvars>>

\* drain_effect_out: one iteration of the priming loop, then flow_effect_out
DeoDrain ==
  /\ pc = "deo_drain"
  /\ IF input_eff < neffects
       THEN \E r \in DrainOutcomes(input_eff) :
              /\ DrainCall(r)
              /\ IF r[1] = 0
                   THEN UNCHANGED <<pc, e, caller>>
                   ELSE CallFlowOut("drain")
       ELSE /\ CallFlowOut("drain")
            /\ ev' = NoEv
            /\ UNCHANGED <<bufvars, input_eff, input_eff_eof, delivered,
                           drained, clipvars>>
  /\ UNCHANGED setupvars
  /\ UNCHANGED <<cfgvars, filevars, outvars, neffects, efftab, efftabR, sigvars,
                 exitvars, total, havedata, flowstatus, readlog, written,
                 wfail, rfail, eofmax>>

\* process() from the release of the buffers to its return, stop_effects
\* included, and the test of main's loop, which closes the output before
\* the next run.  The stages from 1 up are marked empty here: nothing reads
\* them before the next run marks them empty.
Stop ==
  /\ pc = "stop"
  /\ ev' = Ev("stop", 1 .. Last, 0, 0, 0)
  /\ stoplog' = [k \in 1 .. Last |-> efftab[k].id]
  /\ clip_report' = [k \in 1 .. Last |-> EffectClips(k)]
  /\ obuf' = [s \in Stages |-> <<>>]
  /\ olen' = [s \in Stages |-> IF s >= 1 THEN 0 ELSE olen[s]]
  /\ odone' = [s \in Stages |-> IF s >= 1 THEN 0 ELSE odone[s]]
  /\ delivered' = [s \in Stages |-> <<>>]
  /\ LET again == combine_method = "sequence" /\ flowstatus # SOX_EOF
                    /\ ~user_abort /\ current_input <= input_count
     IN /\ pc' = IF again THEN "process" ELSE "kill"
        /\ oopen' = IF again THEN FALSE ELSE oopen
        /\ oclosed' = IF again THEN oclosed + 1 ELSE oclosed
  /\ flowstatus' = 0
  /\ havedata' = 0
  /\ UNCHANGED <<cfgvars, filevars, outvars, chainvars, sigvars,
                 exitvars, caller, e, total, readlog, written, wfail, rfail,
                 drained, eofmax, built, startlog, killlog, warned,
                 trim_start, seeklog, olength, clipvars, iopen, iclosed,
                 oopened, unlinked>>

\* main() after its processing loop: kill_effects, then the return
Kill ==
  /\ pc = "kill"
  /\ ev' = Ev("kill", 1 .. Last, 0, 0, 0)
  /\ killlog' = killlog
                  \o [k \in 1 .. Last |-> <<"kill", efftab[k].id, "L", 0>>]
  /\ success' = 1
  /\ exit_status' = 0
  /\ pc' = "exit"
  /\ UNCHANGED <<cfgvars, filevars, outvars, bufvars, chainvars, sigvars,
                 loopvars, histvars, oopen, built, startlog, stoplog, warned,
                 clip_report,
                 trim_start, seeklog, olength, clipvars, closevars>>

\* cleanup() removing the output whatever its codec
UnlinksM == success = 0 /\ oregular

\* cleanup(): the open output is removed when its codec uses stdio, success
\* was not signalled and it is a regular file
Unlinks == ~nostdio /\ success = 0 /\ oregular

\* cleanup(), which exit() runs: the inputs and the output are closed, the
\* output is removed first if the run did not succeed
Cleanup ==
  /\ pc = "exit"
  /\ pc' = "done"
  /\ ev' = Ev("cleanup", {}, 0, 0, 0)
  /\ iclosed' = [i \in Inputs |-> iclosed[i] + (IF iopen[i] THEN 1 ELSE 0)]
  /\ IF file_count > 0 /\ oopen
       THEN /\ unlinked' = Unlinks
            /\ oclosed' = oclosed + 1
       ELSE UNCHANGED <<unlinked, oclosed>>
  /\ UNCHANGED <<cfgvars, filevars, outvars, bufvars, chainvars, sigvars,
                 exitvars, loopvars, histvars, clipvars, oopen, built,
                 startlog, stoplog, killlog, warned, trim_start, seeklog,
                 olength, clip_report, iopen, oopened>>

\* sigint(): a skip request or an abort request
Sigint ==
  /\ handler
  /\ pc \notin {"exit", "killed", "done"}
  /\ \/ /\ show_progress
        /\ combine_method \in {"sequence", "concatenate"}
        /\ ~user_skip
        /\ user_skip' = TRUE
        /\ UNCHANGED user_abort
     \/ /\ ~user_abort
        /\ user_abort' = TRUE
        /\ UNCHANGED user_skip
  /\ UNCHANGED <<setupvars, clipvars>>
  /\ UNCHANGED <<cfgvars, filevars, outvars, bufvars, chainvars, handler,
                 exitvars, loopvars, histvars, pc, ev>>

Next ==
  \/ ProcessStart
  \/ ReadStep
  \/ AfterRead
  \/ ReadCombine
  \/ FlowFor
  \/ WriteStep
  \/ Rescan
  \/ FeoDrain
  \/ Flowed
  \/ AfterLoop
  \/ DeoDrain
  \/ Stop
  \/ Kill
  \/ Sigint

Spec == Init /\ [][Next]_vars

(* ------------- two inputs one after the other, progress shown --------- *)
\* sox -S a b out vol, or sox -S --combine sequence a b out vol, a mono:
\* SIGINT skips the current input
InitSkip ==
  /\ combine_method \in {"sequence", "concatenate"}
  /\ input_count = 2
  /\ fchan \in {f \in [1 .. 2 -> Channels] : f[1] = 1}
  /\ frate = [i \in 1 .. 2 |-> 1]
  /\ volume = [i \in 1 .. 2 |-> <<1, 1>>]
  /\ vopt = volume
  /\ ofile_signal = [channels |-> 0, rate |-> 0]
  /\ show_progress = TRUE
  /\ user_efftab = <<[name |-> "vol", flags |-> {"MCHAN"}]>>
  /\ sox_bufsiz = B
  /\ fbase = [i \in 1 .. 2 |-> 30 * i]
  /\ seekable = FALSE
  /\ flength = [i \in 1 .. input_count |-> MaxLen * fchan[i]]
  /\ Parsed
  /\ PlainOutput
  /\ InitRun

\* the steps of a run that combines nothing
NextSeq ==
  \/ ProcessStart
  \/ ReadStep
  \/ AfterRead
  \/ FlowFor
  \/ WriteStep
  \/ Rescan
  \/ FeoDrain
  \/ Flowed
  \/ AfterLoop
  \/ DeoDrain
  \/ Stop
  \/ Kill
  \/ Sigint

SkipSpec == InitSkip /\ [][NextSeq]_vars

(* ------------------- a stereo file through split stages -------------- *)
\* sox --buffer SizeMax a out echo, or a out vol echo, a stereo: the stage
\* of echo has a right-channel twin, the stage of vol has none
InitSplit ==
  /\ combine_method = "concatenate"
  /\ input_count = 1
  /\ fchan = <<2>>
  /\ frate = <<1>>
  /\ volume = <<<<1, 1>>>>
  /\ vopt = volume
  /\ ofile_signal = [channels |-> 0, rate |-> 0]
  /\ show_progress = FALSE
  /\ user_efftab \in {<<[name |-> "echo", flags |-> {}]>>,
                       <<[name |-> "vol", flags |-> {"MCHAN"}],
                         [name |-> "echo", flags |-> {}]>>}
  /\ sox_bufsiz = SizeMax
  /\ fbase = <<30>>
  /\ seekable = FALSE
  /\ flength = [i \in 1 .. input_count |-> MaxLen * fchan[i]]
  /\ Parsed
  /\ PlainOutput
  /\ InitRun

SplitSpec == InitSplit /\ [][NextSeq]_vars

(* ---------------- process() up to the start of the effects ------------ *)
\* the effects of the command lines below: one that changes the channels,
\* one that changes the rate, two that change neither, with and without
\* SOX_EFF_MCHAN, and one that never does anything
SetupKinds ==
  { [name |-> "mixer", flags |-> {"CHAN", "MCHAN"}],
    [name |-> "resample", flags |-> {"RATE"}] } \cup EffectKinds \cup {NullKind}

\* any combine method on one or two inputs of any channels and rates, any
\* output channels and rate, any list of up to MaxUser effects
InitSetup ==
  /\ combine_method \in Methods
  /\ input_count \in 1 .. MaxInputs
  /\ (combine_method \in {"mix", "merge"}) => input_count >= 2
  /\ fchan \in [1 .. input_count -> Channels]
  /\ frate \in [1 .. input_count -> Rates]
  /\ volume = [i \in 1 .. input_count |-> <<1, 1>>]
  /\ vopt = volume
  /\ ofile_signal \in [channels : {0} \cup Channels, rate : {0} \cup Rates]
  /\ show_progress = FALSE
  /\ user_efftab \in UNION {[1 .. n -> SetupKinds] : n \in 0 .. MaxUser}
  /\ sox_bufsiz = B
  /\ fbase = [i \in 1 .. input_count |-> 30 * i]
  /\ seekable = FALSE
  /\ flength = [i \in 1 .. input_count |-> MaxLen * fchan[i]]
  /\ Parsed
  /\ PlainOutput
  /\ InitRun

SetupSpec == InitSetup /\ [][ProcessStart]_vars

(* ------------------- the combiner on files of any content ------------- *)
\* the first values of the files: at both ends of the sample range, around
\* zero, and large enough for two of them to leave the range
Bases == {SOX_SAMPLE_MIN - 1, -101, -3, 100, SOX_SAMPLE_MAX - 4}

\* sox -m or -M on two to MaxMix files, all at volume 1 or all at volume 1/2,
\* with a buffer that takes every file whole
InitCombine ==
  /\ combine_method \in {"mix", "merge"}
  /\ input_count \in 2 .. MaxMix
  /\ fchan \in [1 .. input_count -> Channels]
  /\ frate = [i \in 1 .. input_count |-> 1]
  /\ volume \in {[i \in 1 .. input_count |-> v] : v \in {<<1, 1>>, <<1, 2>>}}
  /\ vopt = volume
  /\ ofile_signal = [channels |-> 0, rate |-> 0]
  /\ show_progress = FALSE
  /\ user_efftab = <<>>
  /\ sox_bufsiz = 2 * MaxMix * MaxLen
  /\ fbase \in [1 .. input_count -> Bases]
  /\ seekable = FALSE
  /\ flength = [i \in 1 .. input_count |-> MaxLen * fchan[i]]
  /\ Parsed
  /\ PlainOutput
  /\ InitRun

\* the run up to its first combined block
NextCombine ==
  \/ ProcessStart
  \/ ReadCombine

CombineSpec == InitCombine /\ [][NextCombine]_vars

(* ----------------------------- properties ----------------------------- *)
\* the stages of the chain
Chain == 0 .. (neffects - 1)

\* the run is between two scheduler steps: not inside a sentinel refill
\* (between the read and the rest of the loop body)
StepDone == pc # "after_read"

\* a is an initial part of b
IsPrefix(a, b) == Len(a) <= Len(b) /\ SubSeq(b, 1, Len(a)) = a

\* this step issues the operation op (a signal leaves ev alone)
Issues(op) == ev'.op = op /\ UNCHANGED <<user_abort, user_skip>>

\* the run has ended normally: no abort and no failed write
Finished == pc \in {"stop", "kill"} /\ ~user_abort /\ ~wfail

\* C1: after every scheduler step every stage of the chain, the sentinel
\* included, satisfies 0 <= odone <= olen <= B
C1_BufferBounds ==
  StepDone =>
    \A s \in Chain : 0 <= odone[s] /\ odone[s] <= olen[s] /\ olen[s] <= B

\* C2: one input, no user effects, the output format of the input and
\* volume 1: the chain is the sentinel alone, the samples the sink has
\* accepted are the samples the reads returned, in order, none lost or
\* duplicated (as long as no write has returned zero), and no clip counter
\* moves
IdentityCfg ==
  /\ input_count = 1
  /\ user_efftab = <<>>
  /\ ofile_signal.channels \in {0, fchan[1]}
  /\ ofile_signal.rate \in {0, frate[1]}
  /\ volume[1] = <<1, 1>>

C2_Identity ==
  IdentityCfg =>
    /\ neffects = 1
    /\ ~wfail => IsPrefix(written, readlog)
    /\ (pc = "read" \/ Finished) => written = readlog
    /\ volume_clips[1] = 0
    /\ mixing_clips = 0

C2_Witness ==
  /\ IdentityCfg
  /\ ev.op = "write" /\ ev.o > 0 /\ ev.o < ev.i
  /\ Len(written) = 3

\* C3: concatenating A then B of one format with no effects, the stream
\* read and written is A's samples then B's, of length len(A) + len(B),
\* and A is not read once B has been read
ConcatCfg ==
  /\ combine_method = "concatenate"
  /\ input_count = 2
  /\ user_efftab = <<>>
  /\ fchan[1] = fchan[2] /\ frate[1] = frate[2]
  /\ ofile_signal.channels \in {0, fchan[1]}
  /\ ofile_signal.rate \in {0, frate[1]}
  /\ volume[1] = <<1, 1>> /\ volume[2] = <<1, 1>>

C3_Concat ==
  ConcatCfg =>
    /\ neffects = 1
    /\ readlog = FileBlock(1, 0, pos[1]) \o FileBlock(2, 0, pos[2])
    /\ ~wfail => IsPrefix(written, readlog)
    /\ (ev.op = "read" /\ 1 \in ev.a) => (pos[2] = 0 /\ ~fzero[2])
    /\ (Finished /\ ~show_progress) =>
          /\ fzero[1] /\ fzero[2]
          /\ written = readlog
          /\ Len(written) = (pos[1] + pos[2]) * fchan[1]

C3_Witness ==
  /\ ConcatCfg
  /\ Finished
  /\ pos[1] >= 1 /\ pos[2] >= 1
  /\ Len(written) = (pos[1] + pos[2]) * fchan[1]

\* C4: the samples a stage is given are the samples its predecessor has
\* appended to its buffer, in the order appended, none of them twice
C4_Fifo ==
  \A s \in Chain :
    \A j \in 1 .. Len(delivered[s]) :
      delivered[s][j] = j /\ j <= olen[s]

\* no abort has been requested and no write has returned zero
Clean == ~user_abort /\ ~wfail

\* the scheduling part of C5: a drain is called on the stage input_eff, never
\* on a stage below one drained before; input_eff moves past the stage when
\* the drain gave nothing and stays when it gave samples; the run ends with
\* input_eff = neffects
C5_Order ==
  [][Clean =>
       /\ Issues("drain") =>
            /\ ev'.a = {input_eff}
            /\ \A s \in drained : s <= input_eff
            /\ input_eff' = IF ev'.o = 0 THEN input_eff + 1 ELSE input_eff
       /\ (pc' = "stop" /\ Clean') => input_eff' = neffects]_vars

\* the residue part of C5: a drain after the first finds the output of the
\* pull point and of the later stages consumed, that is, what the drain
\* before left has been pushed on to the sink
C5_Residue ==
  [][(Clean /\ Issues("drain") /\ drained # {}) =>
       \A s \in Chain : s >= input_eff => odone[s] = olen[s]]_vars

\* C5: in a run with no abort and no failed write, drain is called on the
\* stage input_eff only, in increasing stage order, input_eff advances past
\* a stage once its drain gives nothing, the residue of each drain is pushed
\* through the later stages to the sink before the next drain, and the run
\* ends with input_eff = neffects
C5_DrainPhase ==
  [][Clean =>
       /\ Issues("drain") =>
            /\ ev'.a = {input_eff}
            /\ \A s \in drained : s <= input_eff
            /\ input_eff' = IF ev'.o = 0 THEN input_eff + 1 ELSE input_eff
            /\ drained # {} =>
                 \A s \in Chain : s >= input_eff => odone[s] = olen[s]
       /\ (pc' = "stop" /\ Clean') => input_eff' = neffects]_vars

\* the scheduling part of C6: a flow of stage e that returns EOF makes e the
\* pull point; from then on no stage below e is flowed or drained and no
\* input is read, and, absent abort and failed write, the run ends with the
\* last stage's output written and every stage from the pull point up drained
C6_AtEnd ==
  (Finished /\ pc = "stop" /\ eofmax > 0) =>
    /\ input_eff = neffects
    /\ \A s \in Chain : s >= eofmax => s \in drained
    /\ olen[Last] = odone[Last]

C6_Schedule ==
  [][/\ (Issues("flow") /\ ev'.st = SOX_EOF) => ev'.a = {input_eff'}
     /\ (eofmax > 0 /\ (Issues("flow") \/ Issues("drain"))) =>
          \A s \in ev'.a : s >= eofmax
     /\ eofmax > 0 => ~Issues("read")
     /\ C6_AtEnd']_vars

C6_Reached ==
  /\ Finished /\ pc = "stop"
  /\ eofmax >= 1 /\ eofmax < Last
  /\ drained = eofmax .. Last

\* C6: a flow of stage e that returns EOF makes e the pull point; from then
\* on no stage below e is flowed or drained and no input is read, while the
\* output the stages from e up have produced still reaches the sink (no
\* drain replaces a buffer of theirs that holds unconsumed output) and these
\* stages are still drained
C6_FlowEof ==
  [][/\ (Issues("flow") /\ ev'.st = SOX_EOF) => ev'.a = {input_eff'}
     /\ (eofmax > 0 /\ (Issues("flow") \/ Issues("drain"))) =>
          \A s \in ev'.a : s >= eofmax
     /\ eofmax > 0 => ~Issues("read")
     /\ (Clean /\ eofmax > 0 /\ Issues("drain")) =>
          \A s \in ev'.a : odone[s] = olen[s]
     /\ C6_AtEnd']_vars

\* C7: a flow call that returns a status other than EOF having taken no
\* sample and given no sample (the twins counted together) ends the process
\* with exit status 2; one that returns EOF does not
C7_Livelock ==
  [][Issues("flow") =>
       /\ (ev'.st # SOX_EOF /\ ev'.i = 0 /\ ev'.o = 0) =>
            (pc' = "exit" /\ exit_status' = 2 /\ success' = 0)
       /\ (ev'.st = SOX_EOF) => pc' # "exit"]_vars

C7_Witness ==
  /\ pc = "exit" /\ exit_status = 2
  /\ ev.op = "flow" /\ ev.i = 0 /\ ev.o = 0 /\ ev.st # SOX_EOF

\* C8: after a write that returned zero samples the run issues no read, no
\* flow, no drain and no write
C8_WriteErrorStops ==
  [][wfail => ~(Issues("read") \/ Issues("flow") \/ Issues("drain")
                  \/ Issues("write"))]_vars

\* C9: once a write has returned zero samples, success is never signalled
\* and the exit status is not zero
C9_ZeroWriteFatal ==
  wfail => (success = 0 /\ (pc = "exit" => exit_status # 0))

\* C10: after a read that returned zero samples with the error code of its
\* input set, no read is issued on any input
C10_ReadErrorStops ==
  [][rfail => ~Issues("read")]_vars

\* the effects of the table built in this run, by their place in it
BuiltIds == 1 .. Len(built)

\* the effects of the chain, in chain order
ChainIds == [k \in 1 .. Last |-> efftab[k].id]

\* kill has been called on the effect id
Killed(id) == \E k \in 1 .. Len(killlog) : killlog[k][2] = id

\* C11: once the abort flag is set the run issues no read, no flow and no
\* write, and the process exits only after stop has been called on every
\* effect of the chain and kill on every effect
C11_Abort ==
  [][/\ user_abort => ~(Issues("read") \/ Issues("flow") \/ Issues("write"))
     /\ (user_abort' /\ pc' = "exit") =>
          /\ stoplog' = ChainIds'
          /\ \A id \in BuiltIds' : Killed(id)']_vars

\* the part of C11 on flows, writes, stop and kill for a process that ends
\* by leaving main's loop
C11_FlowWriteStop ==
  [][/\ user_abort => ~(Issues("flow") \/ Issues("write"))
     /\ (user_abort' /\ pc' = "exit" /\ ev'.op = "kill") =>
          /\ stoplog' = ChainIds'
          /\ \A id \in BuiltIds' : Killed(id)']_vars

\* C12: in sequence or concatenate mode a sentinel refill that finds the skip
\* flag set issues no read and reports end of input; the rest of the loop body
\* then clears the flag and advances current_input by exactly one, going to
\* the drain phase after the last input and back to reading otherwise (in
\* sequence mode through a new process() when the next input cannot segue);
\* every read is of the current input, which never goes back
C12_Skip ==
  [][/\ (pc = "read" /\ user_skip /\ pc' = "after_read") =>
          /\ ~Issues("read")
          /\ olen'[0] = 0
          /\ pos' = pos /\ readlog' = readlog
          /\ user_skip'
     /\ (pc = "after_read" /\ user_skip /\ olen[0] = 0 /\ pc' # pc) =>
          /\ ~user_skip'
          /\ current_input' = current_input + 1
          /\ IF current_input = input_count
               THEN pc' = "after_loop"
               ELSE \/ pc' = "read"
                    \/ /\ combine_method = "sequence"
                       /\ ~can_segue(current_input + 1)
                       /\ pc' = "after_loop"
     /\ Issues("read") => ev'.a = {current_input}
     /\ current_input' >= current_input]_vars

\* the first input was skipped before it ended and reading is about to go on
\* with the second
C12_Witness ==
  /\ pc = "read"
  /\ current_input = 2
  /\ ~fzero[1]
  /\ pos[1] < MaxLen
  /\ ~user_skip /\ ~user_abort
(* the combiner's first block: input i has delivered pos[i] wide samples *)
\* the first block is combined and about to enter the chain
Combined == pc = "feo_for" /\ e = neffects - 1 /\ written = <<>>

\* the balanced sample of input i at wide sample ws, channel s (both from 0)
Balanced(i, ws, s) ==
  RoundClip(volume[i][1] * FileSample(i, ws + 1, s + 1), volume[i][2])[1]

\* x clamped to the sample range
Clamp(x) ==
  IF x > SOX_SAMPLE_MAX THEN SOX_SAMPLE_MAX
  ELSE IF x < SOX_SAMPLE_MIN THEN SOX_SAMPLE_MIN ELSE x

\* the sum of the balanced samples at (ws, s) of the inputs that have
\* channel s and data at ws
Contributions(ws, s) ==
  SumSeq([i \in 1 .. input_count |->
            IF s < fchan[i] /\ ws < pos[i] THEN Balanced(i, ws, s) ELSE 0])

\* the combined block in wide samples
WideLen == olen[0] \div combiner.channels

\* C13: in mix mode, for any number of inputs, every output sample at wide
\* sample ws and channel s is the sum of the balanced samples at (ws, s) of
\* the inputs that have channel s and data at ws, clamped once
C13_MixSum ==
  (Combined /\ combine_method = "mix") =>
    \A ws \in 0 .. (WideLen - 1) : \A s \in 0 .. (combiner.channels - 1) :
      obuf[0][ws * combiner.channels + s + 1] = Clamp(Contributions(ws, s))

\* the same for two inputs, where one clamp is all there is
C13_TwoInputs == input_count = 2 => C13_MixSum

\* the channels of the inputs before input i
Offset(i) == SumCh(fchan, i - 1)

\* C14: in merge mode the combined stream has sum(c_i) channels, output
\* channel Offset(i) + j carries channel j of input i while input i has data
\* and 0 once it has ended, and the block is as long as the longest input's
C14_MergeLaw ==
  (Combined /\ combine_method = "merge") =>
    /\ combiner.channels = SumCh(fchan, input_count)
    /\ WideLen = MaxCh(pos, input_count)
    /\ Len(obuf[0]) = olen[0]
    /\ \A ws \in 0 .. (WideLen - 1) : \A i \in Inputs :
         \A j \in 0 .. (fchan[i] - 1) :
           obuf[0][ws * combiner.channels + Offset(i) + j + 1]
             = IF ws < pos[i] THEN Balanced(i, ws, j) ELSE 0

\* three inputs of one and two channels merged, the second ended before the
\* others
C14_Witness ==
  /\ Combined /\ combine_method = "merge"
  /\ input_count = 3
  /\ fchan = <<1, 2, 1>>
  /\ pos = <<2, 1, 2>>

\* a file is being mixed with itself, each copy at volume 1/2
SelfMix ==
  /\ combine_method = "mix" /\ input_count = 2
  /\ fchan[1] = fchan[2] /\ fbase[1] = fbase[2]
  /\ volume = <<<<1, 2>>, <<1, 2>>>>
  /\ pos[1] = pos[2]

\* C15: a file mixed with itself, each copy at volume 1/2, gives the file
\* sample for sample, whatever the sample values, and no clip is counted
C15_Idempotent ==
  (Combined /\ SelfMix) =>
    /\ obuf[0] = FileBlock(1, 0, pos[1])
    /\ mixing_clips = 0
    /\ volume_clips = <<0, 0>>

\* the part of C15 that holds: the even samples come out as they are
C15_Even ==
  (Combined /\ SelfMix) =>
    /\ \A j \in 1 .. olen[0] :
         FileBlock(1, 0, pos[1])[j] % 2 = 0 =>
           obuf[0][j] = FileBlock(1, 0, pos[1])[j]
    /\ volume_clips = <<0, 0>>
(* process() has run up to the start of the effects, or has ended the run *)
\* two inputs differ in rate, in channels
RatesDiffer == \E i, j \in Inputs : frate[i] # frate[j]
ChannelsDiffer == \E i, j \in Inputs : fchan[i] # fchan[j]

\* the run has ended with a fatal error, the output not opened, no effect
\* started, nothing read and nothing written
FatalAtOnce ==
  /\ pc = "exit" /\ exit_status = 1 /\ success = 0
  /\ ~oopen
  /\ startlog = <<>>
  /\ readlog = <<>> /\ written = <<>> /\ ev = NoEv

\* C16: when concatenating, mixing or merging, inputs of different rates end
\* the run with a fatal error before the output is opened, before any effect
\* is started and before anything is read or written; inputs of different
\* channels do the same when concatenating, draw a warning when mixing (the
\* combined channels being the most any input has) and nothing when merging
C16_Mismatch ==
  (pc # "process" /\ combine_method # "sequence") =>
    /\ RatesDiffer => FatalAtOnce
    /\ (ChannelsDiffer /\ combine_method = "concatenate") => FatalAtOnce
    /\ (ChannelsDiffer /\ ~RatesDiffer /\ combine_method = "mix") =>
         /\ warned
         /\ exit_status # 1
         /\ combiner.channels = MaxCh(fchan, input_count)
    /\ (ChannelsDiffer /\ ~RatesDiffer /\ combine_method = "merge") =>
         /\ ~warned
         /\ exit_status # 1
         /\ combiner.channels = SumCh(fchan, input_count)
    /\ (~ChannelsDiffer /\ ~RatesDiffer) => (~warned /\ exit_status # 1)

\* a merge of two inputs of different rates has ended
C16_Witness ==
  /\ combine_method = "merge" /\ input_count = 2
  /\ frate[1] # frate[2]
  /\ pc = "exit"
\* build_effects_table has run: the output is open and the user's effects
\* change the channels once at most
Built ==
  /\ pc # "process" /\ oopen
  /\ Cardinality({k \in 1 .. Len(user_efftab) :
                    "CHAN" \in user_efftab[k].flags}) <= 1

\* no effect of the user's has the flag f
NoUser(f) == \A k \in 1 .. Len(user_efftab) : f \notin user_efftab[k].flags

\* the default mixer is needed, the default resampler is needed
MixerNeeded == combiner.channels # ofile_channels /\ NoUser("CHAN")
ResamplerNeeded == combiner.rate # ofile_rate /\ NoUser("RATE")

\* C17: the chain built after the sentinel is the default mixer iff it is
\* needed and the combiner has more channels than the output, the default
\* resampler iff it is needed and the combiner's rate is above the output's,
\* the user's effects in their order, the default resampler iff it is needed
\* and the combiner's rate is below the output's, the default mixer iff it
\* is needed and the combiner has fewer channels than the output
C17_Layout ==
  Built =>
    /\ built =
         (IF MixerNeeded /\ combiner.channels > ofile_channels
            THEN <<DefaultMixer>> ELSE <<>>)
         \o (IF ResamplerNeeded /\ combiner.rate > ofile_rate
               THEN <<DefaultResample>> ELSE <<>>)
         \o user_efftab
         \o (IF ResamplerNeeded /\ combiner.rate < ofile_rate
               THEN <<DefaultResample>> ELSE <<>>)
         \o (IF MixerNeeded /\ combiner.channels < ofile_channels
               THEN <<DefaultMixer>> ELSE <<>>)
    /\ efftab[0] = NoEffect

\* a chain with the default mixer first, two effects of the user's, and the
\* default resampler last
C17_Witness ==
  /\ Built
  /\ Len(built) = 4 /\ Len(user_efftab) = 2
  /\ built[1] = DefaultMixer
  /\ built[2].name = "echo" /\ built[3].name = "vol"
  /\ built[4] = DefaultResample
\* the start phase has succeeded
Started == Built /\ pc # "exit"

StartedOk(id) ==
  \E k \in 1 .. Len(startlog) : startlog[k] = <<"start", id, "L", SOX_SUCCESS>>

\* the effects that do something: not always null, started with success
Kept == {id \in BuiltIds : "NULL" \notin built[id].flags /\ StartedOk(id)}

\* a start call failed: an effect's with neither success nor no-op, a
\* twin's with anything but success
StartFailed ==
  \E k \in 1 .. Len(startlog) :
    /\ startlog[k][1] = "start"
    /\ \/ startlog[k][3] = "L"
          /\ startlog[k][4] \notin {SOX_SUCCESS, SOX_EFF_NULL}
       \/ startlog[k][3] = "R" /\ startlog[k][4] # SOX_SUCCESS

\* the start calls came in the order of the table, a twin's right after
\* its effect's
StartsInOrder ==
  \A j, k \in 1 .. Len(startlog) :
    (j < k /\ startlog[j][1] = "start" /\ startlog[k][1] = "start") =>
      \/ startlog[j][2] < startlog[k][2]
      \/ /\ startlog[j][2] = startlog[k][2]
         /\ startlog[j][3] = "L" /\ startlog[k][3] = "R"
         /\ k = j + 1

\* the chain is the kept effects in the order of the table, each entry
\* and its twin as build_effects_table made them
ChainIsKept ==
  /\ {efftab[s].id : s \in 1 .. Last} = Kept
  /\ \A s, t \in 1 .. Last : s < t => efftab[s].id < efftab[t].id
  /\ \A s \in 1 .. Last :
       /\ efftab[s] = TableOf(built)[efftab[s].id]
       /\ efftabR[s] = TwinsOf(built, combiner.channels,
                               ofile_channels)[efftab[s].id]

\* C18: start is called on the effects in chain order; once the start phase
\* has succeeded the chain holds exactly the effects that are not always
\* null and whose start returned success, in their original order, each with
\* its own twin entry; the scheduler flows, drains and stops only those; a
\* failed start of an effect or of a twin ends the run with exit status 2
C18_StartPhase ==
  [][/\ StartsInOrder'
     /\ Started' => ChainIsKept'
     /\ StartFailed' => (pc' = "exit" /\ exit_status' = 2 /\ success' = 0)
     /\ (Issues("flow") \/ Issues("drain")) =>
          \A s \in ev'.a : s \in 1 .. Last /\ efftab[s].id \in Kept
     /\ Issues("stop") =>
          \A k \in 1 .. Len(stoplog') : stoplog'[k] \in Kept]_vars

\* of two effects the first was removed at its start, the second has been
\* given input, drained and stopped
C18_Witness ==
  /\ pc = "kill"
  /\ Len(built) = 2 /\ neffects = 2
  /\ stoplog = <<2>>
  /\ readlog # <<>> /\ drained # {}
(* the flow of a split stage *)
\* this step flows the split stage e, whose predecessor holds unconsumed
\* samples
SplitFlow ==
  /\ pc = "feo_for" /\ Issues("flow") /\ ev'.a = {e}
  /\ efftabR[e].name # ""
  /\ odone[e - 1] < olen[e - 1]

\* the unconsumed samples of the predecessor of stage e, the room of stage e
Unconsumed == olen[e - 1] - odone[e - 1]
Room == sox_bufsiz - olen[e]

\* the k-th of the unconsumed samples of the predecessor, k from 0, as a
\* position of its buffer
Nth(k) == odone[e - 1] + 1 + k

\* C20: when a split stage flows, its predecessor holding n unconsumed
\* samples and its own buffer having room r, the left twin is offered the
\* ceil(n/2) samples at the even places of the n and the right twin the
\* floor(n/2) at the odd places, each with room floor(r/2); afterwards the
\* predecessor's odone has advanced by the two consumed counts together and
\* the stage's olen by the two produced counts together
C20_Split ==
  [][SplitFlow =>
       /\ Len(ev'.sp.lpos) = (Unconsumed \div 2) + (Unconsumed % 2)
       /\ Len(ev'.sp.rpos) = Unconsumed - Len(ev'.sp.lpos)
       /\ \A k \in 1 .. Len(ev'.sp.lpos) : ev'.sp.lpos[k] = Nth(2 * (k - 1))
       /\ \A k \in 1 .. Len(ev'.sp.rpos) : ev'.sp.rpos[k] = Nth(2 * (k - 1) + 1)
       /\ 2 * ev'.sp.odonel <= Room /\ Room < 2 * ev'.sp.odonel + 2
       /\ ev'.sp.odoner = ev'.sp.odonel
       /\ odone'[e - 1] = odone[e - 1] + ev'.sp.idonel + ev'.sp.idoner
       /\ olen'[e] = olen[e] + ev'.sp.producedl + ev'.sp.producedr]_vars

\* a split stage has just flowed on the three samples its predecessor held,
\* the left twin taking the first and the third, the right twin the second
C20_Witness ==
  /\ ev.op = "flow" /\ ev.sp # <<>>
  /\ \A s \in ev.a : olen[s - 1] = 3 /\ odone[s - 1] = 3
  /\ ev.sp.lpos = <<1, 3>> /\ ev.sp.rpos = <<2>>
  /\ ev.sp.idonel = 2 /\ ev.sp.idoner = 1

(* the output counts of the twins *)
\* this step flows a split stage whose twins report different numbers of
\* produced samples
UnequalTwins ==
  /\ SplitFlow
  /\ ev'.sp.producedl # ev'.sp.producedr

\* C21: when the left and the right twin of a split stage report different
\* numbers of produced samples on one flow call, the call fails and the
\* stage's olen does not advance
C21_EqualCounts ==
  [][UnequalTwins => olen'[e] = olen[e] /\ pc' \in {"exit", "killed"}]_vars

(* ------------------------ a trim at the head of the chain ------------- *)
\* the trim effect: it works on all the channels at once
TrimKind == [name |-> "trim", flags |-> {"MCHAN"}]

\* sox a out trim N, sox a out noop trim N, sox a out vol 1 trim N, and the
\* same with a second input b, the files seekable or not
InitTrim ==
  /\ combine_method = "concatenate"
  /\ input_count \in 1 .. 2
  /\ \E c \in Channels : fchan = [i \in 1 .. input_count |-> c]
  /\ frate = [i \in 1 .. input_count |-> 1]
  /\ volume = [i \in 1 .. input_count |-> <<1, 1>>]
  /\ vopt = volume
  /\ ofile_signal = [channels |-> 0, rate |-> 0]
  /\ show_progress = FALSE
  /\ user_efftab \in {<<TrimKind>>, <<NullKind, TrimKind>>,
                       <<[name |-> "vol", flags |-> {"MCHAN"}], TrimKind>>}
  /\ sox_bufsiz = B
  /\ fbase = [i \in 1 .. input_count |-> 30 * i]
  /\ seekable \in BOOLEAN
  /\ flength = [i \in 1 .. input_count |-> MaxLen * fchan[i]]
  /\ Parsed
  /\ PlainOutput
  /\ InitRun

\* the run up to the first call of flow_effect_out
NextTrim ==
  \/ ProcessStart
  \/ ReadStep
  \/ AfterRead

TrimSpec == InitTrim /\ [][NextTrim]_vars

(* the seek of optimize_trim *)
\* the start calls process() has made in this run
StartCalls == Len(SelectSeq(startlog, LAMBDA c : c[1] = "start"))

\* after the start phase the chain begins with trim, and there is one input
TrimLeads == input_count = 1 /\ neffects > 1 /\ efftab[1].name = "trim"

\* C22: process() seeks the input iff there is one input, trim is the first
\* stage left by the start phase and the input is seekable; the seek comes
\* after every start call and before any read; if it succeeds trim's start
\* offset is cleared and read_wide_samples is the offset divided by the
\* channels, if it fails the offset stays and read_wide_samples stays 0
C22_TrimSeek ==
  [][ProcessStart =>
       /\ Len(seeklog') <= 1
       /\ (seeklog' # <<>>) <=> (pc' = "read" /\ TrimLeads' /\ seekable)
       /\ seeklog' # <<>> =>
            LET call == seeklog'[1]
            IN /\ call.starts = StartCalls'
               /\ readlog' = <<>> /\ \A i \in Inputs : ~fzero'[i]
               /\ call.st # SOX_EOF =>
                    /\ trim_start'[1] = 0
                    /\ read_wide_samples' = call.offset \div fchan[1]
               /\ call.st = SOX_EOF =>
                    /\ trim_start'[1] = call.offset
                    /\ read_wide_samples' = 0
                    /\ pos' = pos]_vars

\* sox a out noop trim 2, a stereo and seekable: the noop is removed, the
\* seek to sample 2 has succeeded and one wide sample counts as read
C22_Witness ==
  /\ pc = "read" /\ Len(built) = 2 /\ neffects = 2
  /\ fchan[1] = 2
  /\ seeklog # <<>> /\ seeklog[1].offset = 2 /\ seeklog[1].st = SOX_SUCCESS
  /\ seeklog[1].starts = 1
  /\ read_wide_samples = 1 /\ trim_start[1] = 0

(* the boundary between two inputs in sequence mode *)
\* the read loop of a sequence has found the current input at its end and
\* another input follows; this step is the rest of the loop body
Boundary ==
  /\ AfterRead
  /\ olen[0] = 0
  /\ combine_method = "sequence"
  /\ current_input < input_count

\* the input after the current one has its rate and its channels
SameFormat ==
  /\ frate[current_input + 1] = frate[current_input]
  /\ fchan[current_input + 1] = fchan[current_input]

\* the run of a sequence that ends here was ended by an input of another
\* format, not by the user, an error or an end of the output
Broken ==
  /\ combine_method = "sequence"
  /\ current_input <= input_count
  /\ flowstatus = 0 /\ oerr = 0 /\ ~user_abort

\* the effects of the table effs whose start is called
Startable(effs) == {k \in 1 .. Len(effs) : "NULL" \notin effs[k].flags}

\* C23: in sequence mode, when the current input ends and the next one has
\* the same rate and channels, the loop goes on reading, from the next
\* input, into the chain as it is: nothing is stopped, started, built or
\* reopened; when they differ the loop ends there, the run enters its drain
\* and stops its effects, and, unless the user aborts, process() runs again
\* on the next input: the output is closed and opened again, the table is
\* built for the new input's format and every effect of it is started
C23_Segue ==
  [][/\ (Boundary /\ SameFormat) =>
          /\ pc' = "read" /\ current_input' = current_input + 1
          /\ UNCHANGED <<chainvars, setupvars, outvars, bufvars>>
     /\ (Boundary /\ ~SameFormat) =>
          /\ pc' = "after_loop" /\ current_input' = current_input + 1
          /\ flowstatus = 0 /\ oerr = 0
     /\ (AfterLoop /\ Broken) => pc' = "deo_drain"
     /\ (Stop /\ Broken) =>
          /\ stoplog' = [k \in 1 .. Last |-> efftab[k].id]
          /\ pc' = "process" /\ ~oopen'
     /\ (ProcessStart /\ current_input > 1 /\ pc' = "read") =>
          /\ oopen'
          /\ combiner' = [channels |-> fchan[current_input],
                          rate |-> frate[current_input]]
          /\ built' = BuildTable(fchan[current_input], frate[current_input],
                                 ofile_channels', ofile_rate')
          /\ \A k \in Startable(built') :
               \E c \in 1 .. Len(startlog') :
                 SubSeq(startlog'[c], 1, 3) = <<"start", k, "L">>
          /\ stoplog' = <<>> /\ readlog' = <<>>]_vars

\* sox --combine sequence a b out vol, a mono and b stereo: the second run
\* has read from b through a chain built for two channels
C23_Witness ==
  /\ combine_method = "sequence" /\ current_input = 2
  /\ fchan[1] = 1 /\ fchan[2] = 2
  /\ combiner.channels = 2 /\ ofile_channels = 2
  /\ pc = "after_read" /\ ev.op = "read" /\ ev.a = {2} /\ readlog # <<>>
  /\ stoplog = <<>> /\ neffects = 2

(* ------------------------ the length of the output -------------------- *)
\* an effect that changes the length of the stream
PadKind == [name |-> "pad", flags |-> {"MCHAN", "LENGTH"}]

\* the lengths, in samples, a codec may report for an input: 0 is unknown
Lengths == {0, 2, 4}

\* any combine method on one or two inputs of any channels and any length,
\* the output rate that of the inputs or another, the effects vol and pad
InitLength ==
  /\ combine_method \in Methods
  /\ input_count \in 1 .. MaxInputs
  /\ (combine_method \in {"mix", "merge"}) => input_count >= 2
  /\ fchan \in [1 .. input_count -> Channels]
  /\ frate = [i \in 1 .. input_count |-> 1]
  /\ volume = [i \in 1 .. input_count |-> <<1, 1>>]
  /\ vopt = volume
  /\ ofile_signal \in [channels : {0}, rate : {0, 2}]
  /\ show_progress = FALSE
  /\ user_efftab \in {<<>>, <<[name |-> "vol", flags |-> {"MCHAN"}]>>,
                       <<PadKind>>,
                       <<[name |-> "vol", flags |-> {"MCHAN"}], PadKind>>}
  /\ sox_bufsiz = B
  /\ fbase = [i \in 1 .. input_count |-> 30 * i]
  /\ seekable = FALSE
  /\ flength \in [1 .. input_count -> Lengths]
  /\ Parsed
  /\ PlainOutput
  /\ InitRun

LengthSpec == InitLength /\ [][ProcessStart]_vars

\* some effect of the table as built changes the length of the stream
LengthChanged == \E k \in 1 .. Len(BuiltTable) : "LENGTH" \in BuiltTable[k].flags

\* the sum and the greatest of the inputs' lengths in wide samples
RECURSIVE SumWide(_)
SumWide(n) == IF n = 0 THEN 0 ELSE (flength[n] \div fchan[n]) + SumWide(n - 1)

GreatestWide ==
  CHOOSE m \in 0 .. 4 :
    /\ \E i \in Inputs : flength[i] \div fchan[i] = m
    /\ \A i \in Inputs : flength[i] \div fchan[i] <= m

UserChanEffects == Cardinality(WithFlag(user_efftab, "CHAN"))

\* C25: when the user gives more than one effect that changes the number
\* of channels, process() ends the program with exit status 1, the output
\* not opened and no effect started
C25_TooManyChan ==
  [][(ProcessStart /\ UserChanEffects > 1) =>
       /\ pc' = "exit" /\ exit_status' = 1
       /\ ~oopen'
       /\ startlog' = <<>>]_vars

(* ------------------------ the volumes of the inputs ------------------- *)
\* any combine method on one or two mono inputs, each with -v 1, with -v 2
\* or without -v, no effects; the inputs are not yet opened
InitVolume ==
  /\ combine_method \in Methods
  /\ input_count \in 1 .. MaxInputs
  /\ fchan = [i \in 1 .. input_count |-> 1]
  /\ frate = [i \in 1 .. input_count |-> 1]
  /\ vopt \in [1 .. input_count -> Volumes \cup {HUGE_VAL}]
  /\ volume = vopt
  /\ ofile_signal = [channels |-> 0, rate |-> 0]
  /\ show_progress = FALSE
  /\ user_efftab = <<>>
  /\ sox_bufsiz = B
  /\ fbase = [i \in 1 .. input_count |-> 30 * i]
  /\ seekable = FALSE
  /\ flength = [i \in 1 .. input_count |-> MaxLen * fchan[i]]
  /\ Parsed
  /\ PlainOutput
  /\ InitState
  /\ pc = "main"
  /\ iopen = [i \in 1 .. input_count |-> FALSE]

\* the run from the opening of the inputs to the first call of
\* flow_effect_out
NextVolume ==
  \/ OpenInputs
  \/ ProcessStart
  \/ ReadStep
  \/ AfterRead
  \/ ReadCombine

VolumeSpec == InitVolume /\ [][NextVolume]_vars

\* C26: an input that was given no -v is read and balanced with the volume
\* 1/N when the N inputs are mixed, whatever -v the other inputs were
\* given, and with the volume 1 under the other combine methods
C26_DefaultVolume ==
  [][(pc = "read" /\ ev'.op = "read") =>
       \A i \in ev'.a :
         vopt[i] = HUGE_VAL =>
           volume[i] = IF combine_method = "mix" THEN <<1, input_count>>
                       ELSE <<1, 1>>]_vars

(* ------------------------ an effect that saturates -------------------- *)
\* bass works on one channel at a time and counts the samples it clips
BassKind == [name |-> "bass", flags |-> {}]

\* sox a out bass +20, a stereo: the stage of bass has a right-channel twin
InitClip ==
  /\ combine_method = "concatenate"
  /\ input_count = 1
  /\ fchan = <<2>>
  /\ frate = <<1>>
  /\ volume = <<<<1, 1>>>>
  /\ vopt = volume
  /\ ofile_signal = [channels |-> 0, rate |-> 0]
  /\ show_progress = FALSE
  /\ user_efftab = <<BassKind>>
  /\ sox_bufsiz = B
  /\ fbase = <<30>>
  /\ seekable = FALSE
  /\ flength = <<MaxLen * 2>>
  /\ Parsed
  /\ PlainOutput
  /\ InitRun

ClipSpec == InitClip /\ [][NextSeq]_vars

\* C27: for a stage run as left and right twins, the clips stop_effects
\* counts for it and the clips it adds to the total are the clip counter of
\* the left instance plus the clip counter of the right one
C27_TwinClips ==
  [][Stop =>
       \A k \in 1 .. Last :
         efftabR[k].name # "" =>
           /\ clip_report'[k] = eclips[k] + eclipsR[k]
           /\ EffectClips(k) = eclips[k] + eclipsR[k]]_vars

(* ------------------------ the file names of a command line ------------ *)
\* the most file names and playlist entries of the command lines below
MaxNames == MAX_FILES + 1

\* sox, play or rec with up to MaxNames file names and perhaps a playlist,
\* nothing parsed yet: no file is counted and input_count is still 0
InitParse ==
  /\ progname \in {"sox", "play", "rec"}
  /\ combine_method = IF progname = "play" THEN "sequence" ELSE "concatenate"
  /\ input_count = 0
  /\ fchan = <<>>
  /\ frate = <<>>
  /\ volume = <<>>
  /\ vopt = <<>>
  /\ ofile_signal = [channels |-> 0, rate |-> 0]
  /\ show_progress = FALSE
  /\ user_efftab = <<>>
  /\ sox_bufsiz = B
  /\ fbase = <<>>
  /\ seekable = FALSE
  /\ flength = <<>>
  /\ file_count = 0
  /\ nfiles \in 0 .. MaxNames
  /\ playlist \in {0, 2, MaxNames}
  /\ PlainOutput
  /\ InitState
  /\ pc = "parse"
  /\ iopen = <<>>

NextParse ==
  \/ ParseFile
  \/ ParsePlaylist
  \/ ParseDevices

ParseSpec == InitParse /\ [][NextParse]_vars

\* C28: once the file names are parsed, the files but the last, which are
\* the inputs, are at most MAX_INPUT_FILES
C28_FileLimit == (pc = "parsed") => (file_count - 1 <= MAX_INPUT_FILES)

(* --------------------------- the end of the process ------------------- *)
\* one or two inputs, concatenated or processed in sequence through one
\* effect, written to an output of any kind; the run starts in main()
InitExit ==
  /\ combine_method \in {"sequence", "concatenate"}
  /\ input_count \in 1 .. 2
  /\ fchan \in {[i \in 1 .. input_count |-> 1], [i \in 1 .. input_count |-> i]}
  /\ frate = [i \in 1 .. input_count |-> 1]
  /\ volume = [i \in 1 .. input_count |-> <<1, 1>>]
  /\ vopt = volume
  /\ ofile_signal = [channels |-> 0, rate |-> 0]
  /\ show_progress = FALSE
  /\ user_efftab = <<[name |-> "vol", flags |-> {"MCHAN"}]>>
  /\ sox_bufsiz = B
  /\ fbase = [i \in 1 .. input_count |-> 30 * i]
  /\ seekable = FALSE
  /\ flength = [i \in 1 .. input_count |-> MaxLen * fchan[i]]
  /\ oregular \in BOOLEAN
  /\ nostdio \in BOOLEAN
  /\ Parsed
  /\ InitState
  /\ pc = "main"
  /\ iopen = [i \in 1 .. input_count |-> FALSE]

\* main() from the opening of the inputs to the end of cleanup()
NextExit ==
  \/ OpenInputs
  \/ ProcessStart
  \/ ReadStep
  \/ AfterRead
  \/ FlowFor
  \/ WriteStep
  \/ Rescan
  \/ FeoDrain
  \/ Flowed
  \/ AfterLoop
  \/ DeoDrain
  \/ Stop
  \/ Kill
  \/ Sigint
  \/ Cleanup

ExitSpec == InitExit /\ [][NextExit]_vars

\* C29: cleanup() unlinks the output exactly when its handle is open, success
\* was not signalled, it is a regular file and its codec uses stdio; a run
\* that process() leaves under a user abort goes on to kill_effects(), which
\* is followed by the signalling of success and exit status 0, and its
\* output is kept; every input handle and every output handle that was
\* opened has been closed exactly once when cleanup() is over, and no
\* handle is closed before it is opened or opened over an open one
C29_Retention ==
  [][/\ Cleanup =>
          /\ unlinked' <=> (oopen /\ success = 0 /\ oregular /\ ~nostdio)
          /\ success = 1 => ~unlinked'
          /\ \A i \in Inputs : iclosed'[i] = (IF iopen[i] THEN 1 ELSE 0)
          /\ oclosed' = oopened'
     /\ (Stop /\ user_abort) => pc' = "kill"
     /\ Kill => (success' = 1 /\ exit_status' = 0)
     /\ oclosed' <= oopened'
     /\ oopened' > oopened => oclosed = oopened
     /\ ~unlinked]_vars

\* a failed run whose output was opened, removed and closed, with an input
\* closed as well
C29_Witness ==
  /\ pc = "done"
  /\ unlinked
  /\ oopened = 1
  /\ oclosed = 1
  /\ \E i \in Inputs : iclosed[i] = 1

\* a run ended by a user abort that kept its output
C29_Aborted ==
  /\ pc = "done"
  /\ user_abort
  /\ success = 1
  /\ oopened >= 1
  /\ ~unlinked

(* ----------------------- flow after a flow that gave EOF -------------- *)
\* C30: once the flow handler of a stage has returned EOF, the handler is
\* not invoked on that stage again in the same run.  The stages whose flow
\* has returned EOF are at or below eofmax and no stage below eofmax is
\* flowed, so the stage at stake is eofmax.
C30_NoFlowAfterEof ==
  [][(Issues("flow") /\ eofmax > 0) => eofmax \notin ev'.a]_vars

(* ------------------------- flow after the first drain ----------------- *)
\* C31: once the drain handler of a stage has been called in a run, the
\* flow handler of that stage is not called again in that run
C31_NoFlowAfterDrain ==
  [][Issues("flow") => ev'.a \cap drained = {}]_vars

(* ----------------------- buffers overwritten from their start --------- *)
\* C32: the read loop refills the sentinel, and a drain refills its stage,
\* only when every sample placed in the buffer before has been consumed
\* (odone = olen); flow_effect_out returns success to the read loop, which
\* then reads again, only with the sentinel fully consumed
C32_NoDrop ==
  [][/\ (ReadStep \/ ReadCombine) => odone[0] = olen[0]
     /\ Issues("drain") => \A s \in ev'.a : odone[s] = olen[s]
     /\ (Flowed /\ pc' = "read") => odone[0] = olen[0]]_vars

(* ----------------------- the room of a stage that is flowed ----------- *)
\* C33: the flow handler of a stage is invoked only when the stage's buffer
\* has free room: olen < sox_bufsiz, and at least one sample for each twin
\* of a split stage; hence no flow is handed an empty output window and
\* ends the process for having taken and given nothing
C33_FlowRoom ==
  [][Issues("flow") =>
       \A s \in ev'.a :
         /\ olen[s] < sox_bufsiz
         /\ efftabR[s].name # "" => sox_bufsiz - olen[s] >= 2]_vars

(* ----------------------------- the pull point ------------------------- *)
\* process() is past the reset of the pull point and has not returned
InRun == pc \notin {"parse", "parsed", "main", "process", "exit", "done",
                    "killed", "kill"}

\* C34: process() starts a run with input_eff = 0; during the run input_eff
\* never decreases and never exceeds neffects; input_eff_eof is set only by a
\* drain of stage input_eff that returned EOF and gave samples, it stays set
\* only while input_eff stays and no handler of that stage is called, and it
\* is set only with input_eff < neffects
C34_PullPoint ==
  [][/\ ProcessStart => (InRun' => (input_eff' = 0 /\ ~input_eff_eof'))
     /\ (InRun /\ InRun') =>
          /\ input_eff' >= input_eff
          /\ input_eff' <= neffects
          /\ input_eff_eof' => input_eff' < neffects
          /\ input_eff_eof' =>
               \/ /\ ev'.op = "drain"
                  /\ ev'.a = {input_eff'}
                  /\ ev'.st = SOX_EOF
                  /\ ev'.o > 0
               \/ /\ input_eff_eof
                  /\ input_eff' = input_eff
                  /\ ~(ev'.op \in {"flow", "drain"} /\ input_eff \in ev'.a)]_vars

\* a drain of the pull point has returned EOF with samples and the flag is
\* set on a stage below the last
C34_Witness ==
  /\ InRun
  /\ input_eff_eof
  /\ input_eff >= 1
  /\ input_eff < Last
  /\ ev.op = "drain"
  /\ ev.st = SOX_EOF

(* ------------------------ the capacity of the stage tables ------------ *)
\* the effects the next argument of the command lines below may name: any
\* kind for the first two, then effects that change neither channels nor rate
EffectArgs(n) ==
  IF n < 2 THEN {[name |-> "vol", flags |-> {"MCHAN"}], DefaultMixer,
                 DefaultResample}
  ELSE {[name |-> "vol", flags |-> {"MCHAN"}]}

\* the options and files parse_effects leaves alone
fixedopts == <<combine_method, input_count, fchan, frate, vopt, ofile_signal,
               show_progress, sox_bufsiz, fbase, seekable, flength, oregular,
               nostdio, progname, argvars>>

\* parse_effects(): one iteration of its loop, or its end when no argument
\* is left
ParseEffects ==
  /\ pc = "effects"
  /\ ev' = NoEv
  /\ \E more \in BOOLEAN :
       IF ~more
         THEN /\ pc' = "effects_parsed"
              /\ UNCHANGED <<user_efftab, exitvars>>
         ELSE IF Len(user_efftab) >= MAX_USER_EFF
           THEN /\ Exit(1)
                /\ UNCHANGED user_efftab
           ELSE \E k \in EffectArgs(Len(user_efftab)) :
                  /\ user_efftab' = Append(user_efftab, k)
                  /\ UNCHANGED <<pc, exitvars>>
  /\ UNCHANGED <<fixedopts, filevars, outvars, bufvars, chainvars, sigvars,
                 loopvars, histvars, setupvars, clipvars>>

\* build_effects_table(): the number of stages it places in efftab and
\* efftabR, the sentinel included
BuildEffects ==
  /\ pc = "effects_parsed"
  /\ ev' = NoEv
  /\ IF Cardinality(WithFlag(user_efftab, "CHAN")) > 1
       THEN /\ Exit(2)
            /\ UNCHANGED neffects
       ELSE /\ neffects' = 1 + Len(BuiltTable)
            /\ pc' = "tabled"
            /\ UNCHANGED exitvars
  /\ UNCHANGED <<cfgvars, filevars, outvars, bufvars, efftab, efftabR,
                 input_eff, input_eff_eof, sigvars, loopvars, histvars,
                 setupvars, clipvars>>

\* one input of any format, an output that asks for any format or none,
\* before the effects of the command line are parsed
InitChain ==
  /\ combine_method = "concatenate"
  /\ input_count = 1
  /\ fchan \in [1 .. 1 -> Channels]
  /\ frate \in [1 .. 1 -> Rates]
  /\ volume = <<<<1, 1>>>>
  /\ vopt = volume
  /\ ofile_signal \in [channels : {0} \cup Channels, rate : {0} \cup Rates]
  /\ show_progress = FALSE
  /\ user_efftab = <<>>
  /\ sox_bufsiz = B
  /\ fbase = <<30>>
  /\ seekable = FALSE
  /\ flength = <<MaxLen * fchan[1]>>
  /\ Parsed
  /\ PlainOutput
  /\ InitState
  /\ pc = "effects"
  /\ iopen = <<TRUE>>

NextChain ==
  \/ ParseEffects
  \/ BuildEffects

ChainSpec == InitChain /\ [][NextChain]_vars

\* C35: for every command line parse_effects accepts, the stages
\* build_effects_table places in the stage tables, the sentinel included,
\* are at most MAX_EFF
C35_Capacity == (pc = "tabled") => neffects <= MAX_EFF

(* --------------------- the memory the splitter touches ---------------- *)
\* C36: when a split stage flows, the de-interleave loop reads only
\* unconsumed samples of the predecessor (positions odone + 1 .. olen of its
\* buffer), fills at most floor(sox_bufsiz / 2) places of each scratch
\* buffer, and the re-interleave loop writes only into the free space of the
\* stage's buffer
C36_SplitterSafe ==
  [][SplitFlow =>
       LET from == FlowWindowStart(e)
           L == ScratchL(from, Unconsumed)
           R == ScratchR(from, Unconsumed)
       IN /\ \A k \in 1 .. Len(L) : odone[e - 1] < L[k] /\ L[k] <= olen[e - 1]
          /\ \A k \in 1 .. Len(R) : odone[e - 1] < R[k] /\ R[k] <= olen[e - 1]
          /\ Len(L) <= sox_bufsiz \div 2
          /\ Len(R) <= sox_bufsiz \div 2
          /\ olen[e] + 2 * ev'.sp.producedr <= sox_bufsiz]_vars

(* -------------------- the time alignment of combined inputs ----------- *)
\* C37: in mix and merge mode every wide sample an input delivers goes into
\* the combined wide sample of the same index: a read that delivers samples
\* of input i starts at the file position that equals the number of
\* combined wide samples made so far, so that an input is replaced by
\* silence only past its own end
C37_Aligned ==
  [][ReadCombine =>
       \A i \in Inputs : pos'[i] > pos[i] => pos[i] = read_wide_samples]_vars

(* ------------------------------ termination --------------------------- *)
\* one or two mono inputs concatenated through one or two effects
InitLive ==
  /\ combine_method = "concatenate"
  /\ input_count \in 1 .. 2
  /\ fchan = [i \in 1 .. input_count |-> 1]
  /\ frate = [i \in 1 .. input_count |-> 1]
  /\ volume = [i \in 1 .. input_count |-> <<1, 1>>]
  /\ vopt = volume
  /\ ofile_signal = [channels |-> 0, rate |-> 0]
  /\ show_progress = FALSE
  /\ user_efftab \in {<<[name |-> "vol", flags |-> {"MCHAN"}]>>,
                       <<[name |-> "vol", flags |-> {"MCHAN"}],
                         [name |-> "echo", flags |-> {}]>>}
  /\ sox_bufsiz = B
  /\ fbase = [i \in 1 .. input_count |-> 30 * i]
  /\ seekable = FALSE
  /\ flength = [i \in 1 .. input_count |-> MaxLen * fchan[i]]
  /\ Parsed
  /\ PlainOutput
  /\ InitRun

\* the handlers and the sink behave: a write accepts at least one sample and
\* a flow that is offered input takes at least one sample or returns EOF
Behaved ==
  /\ ev'.op = "write" => ev'.o >= 1
  /\ ev'.op = "flow" => (ev'.i >= 1 \/ ev'.st = SOX_EOF)

\* a drain that ends the draining of its stage: no samples, or EOF
DrainEnds ==
  /\ FeoDrain \/ DeoDrain
  /\ ev'.op = "drain"
  /\ ev'.o = 0 \/ ev'.st = SOX_EOF

\* the steps of the program with such handlers and such a sink
NextLive == NextSeq /\ Behaved

\* the program keeps running, and no stage gives samples without EOF to
\* every one of an endless row of drains
LiveSpec ==
  /\ InitLive
  /\ [][NextLive]_vars
  /\ WF_vars(NextLive)
  /\ SF_vars(DrainEnds /\ Behaved)

\* C38: when every input ends after finitely many reads, every write accepts
\* a sample, every flow that is offered input takes a sample or returns EOF
\* and every stage's drains end, process() leaves its read loop, every
\* flow_effect_out loop and the drain phase: a run that has reached the read
\* loop reaches stop_effects or the end of the process
C38_Terminates == (pc = "read") ~> (pc \in {"stop", "exit", "killed"})

\* a run of two effects has come to stop_effects, unaborted, after both
\* stages were drained and all of the input was read
C38_Witness ==
  /\ pc = "stop"
  /\ drained = {1, 2}
  /\ ~user_abort
  /\ ~wfail
  /\ \A i \in Inputs : fzero[i]

(* ------------------------ the inputs of a sequence -------------------- *)
\* C39: in sequence mode the inputs are read one after the other in the
\* order of the command line, and a program that comes to kill_effects with
\* no abort requested and no write failed has taken every input to its end
\* or skipped it, also when the flow of an effect has returned EOF
C39_AllInputs ==
  [][/\ Issues("read") => ev'.a = {current_input}
     /\ current_input' \in {current_input, current_input + 1}
     /\ (combine_method = "sequence" /\ Kill /\ ~user_abort /\ ~wfail
           /\ oerr = 0) =>
          current_input > input_count]_vars

(* --------------------------- a skip request kept ---------------------- *)
\* C40: the skip flag is cleared only by the loop body of a refill that,
\* finding the flag set, issued no read and reported the end of the input:
\* a flag set after the read of that refill has returned is still set when
\* the next refill begins
C40_SkipKept ==
  [][(user_skip /\ ~user_skip') =>
       (pc = "after_read" /\ ev.op # "read")]_vars

====
